---- MODULE Spec2Model ----
(***************************************************************************)
(* r2web: one terminal session (R2Tab, src/unnamed/part_003) and the page  *)
(* that owns it (Radare2Terminal, src/unnamed/part_005).                   *)
(*                                                                         *)
(* Strings are sequences of one-character strings.  React state is read    *)
(* through closures: a function created in one render keeps the r2Writer   *)
(* and instance values of that render.  r2Writer and instance are set in   *)
(* the same commit (part_003:148-149, 225, 411-412), so a render is named  *)
(* by the instance id k it saw: k = 0 is (undefined, null).  A state       *)
(* update and the re-render it causes are one step.                        *)
(***************************************************************************)
EXTENDS Integers, Sequences, FiniteSets, TLC

\* ---------------------------------------------------------------- bounds
MaxInst == 3      \* launches (pkg.entrypoint.run calls) per session
MaxHist == 3      \* submitted non-blank lines per stream wiring
MaxPaste == 1     \* clipboard reads in flight at a time
MaxErr == 2       \* "No file provided" lines written to the terminal
MaxLoads == 2     \* visits of the /r2 page (resolves) in one browser profile
MaxBody == 2      \* bytes of a response body
MaxScrapes == 2   \* handleShow* calls per session
MaxLines == 2     \* lines of a px output
MaxTabId == 5     \* largest tab id handed out
MaxComponent == 10 \* largest component of a release tag x.y.z
MaxReqs == 2      \* requests the proxy receives
MaxWrites == 2    \* chunks of the extracted entry written to a response
MaxChunks == 2    \* chunks an instance writes to one output stream
MaxSess == 2      \* R2Tab components mounted on one page
MaxOps == 1       \* Save File and view operations on one page
MaxRelaunch == 1  \* Restart clicks followed per session of a page

\* ------------------------------------------------------- input alphabet
Chars == {"p", "d", " "}
Whitespace == {" "}
\* the texts the user types: every pending line is a prefix of one of them
TypedLines == {<<"p", "d">>, <<" ">>}
ClipTexts == {<<"d">>}
PromptAnswers == {<<>>, <<"p">>}
CTRL_C == "ETX"
CTRL_V == "SYN"
CTRL_R == "DC2"
CTRL_L == "FF"
CTRL_F == "ACK"
CTRL_G == "BEL"
CR == "\r"
UP == "ESC[A"
DOWN == "ESC[B"
DEL == "DEL"
ControlUnits == {CTRL_C, CTRL_V, CTRL_R, CTRL_L, CTRL_F, CTRL_G, CR, UP, DOWN, DEL}
Letters == {"R", "L", "F", "G"}
Units == ControlUnits \cup Letters \cup Chars

VARIABLES
  pkg,              \* Radare2Terminal state pkg is non-null
  file,             \* fileStore.getFile() is non-null
  mounted,          \* the R2Tab component is mounted (its handle ref is set)
  termInstance,     \* the xterm Terminal: "open" or "disposed" ("none" before a page mounts)
  r2Writer,         \* R2Tab state r2Writer: 0 (undefined) or the instance whose stdin it writes
  instance,         \* R2Tab state instance: 0 (null) or an instance id
  dir,              \* R2Tab state dir: 0 (null) or the Directory allocated for that launch
  inst,             \* launches: id -> [st, cap, closed]
  onDataRef,        \* onDataDisposableRef.current: 0 or the instance its listener writes to
  attached,         \* listeners registered on the terminal's onData emitter
  closing,          \* restartSession calls awaiting r2Writer.close(), per captured render
  disposing,        \* dispose() call awaiting r2Writer.close(): -1 none, else captured render
  disposed,         \* a dispose() call has run to completion
  noFileErrors,     \* "Error: No file provided" lines written
  currentInput,     \* connectStreams closure: pending input line
  history,          \* connectStreams closure: submitted lines
  historyIndex,     \* connectStreams closure: history cursor
  cancelController, \* connectStreams closure: an AbortController is tracked
  pastes,           \* clipboard reads in flight: [to, stale]
  out,              \* what the last input event did: [key (branch taken), to, dead, stdin, term, line]
  cacheVersion,     \* Home state cacheVersion (the "cache this version" checkbox)
  url,              \* query of the /r2 page being shown: [version, doCache]
  binaryCache,      \* caches "wasm-cache": the versions it holds a response for
  loader,           \* initializeWasmer call frame: [pc, total, loaded]
  downloadPhase,    \* Radare2Terminal state downloadPhase
  downloadProgress, \* Radare2Terminal state downloadProgress, a fraction [n, d]
  isDownloading,    \* Radare2Terminal state isDownloading
  resolveLog,       \* what the resolve of this page load did so far
  visits,           \* the page loads so far: [loads, servedDefault (versions resolved with the
                    \* caching option at its default and not deleted since)]
  mydir,            \* the session's Directory: per view, the output file r2 wrote there
  r2queue,          \* redirect commands written to stdin that r2 has not run yet
  calls,            \* the handleShow* calls so far: [kind, st, residual, read, result]
  viewData,         \* Radare2Terminal state stringsData / hexData / graphData: per view, the
                    \* call whose output it holds (0: initial value)
  px,               \* the lines r2 printed into /.hexdump, each [kind, lead, digits, bytes, ascii]
  hexData,          \* Radare2Terminal state hexData
  showHexView,      \* Radare2Terminal state showHexView
  tabs,             \* Radare2Terminal state tabs: the ids of the open tabs, in order
  activeTab,        \* Radare2Terminal state activeTab
  currentVersion,   \* Radare2Terminal state currentVersion, a string
  offered,          \* what the sidebar rendered for it offers: "structured" (Strings and
                    \* Hexdump open their views), "graph", "save"
  proc,             \* the proxy's node process: "up" or "crashed"
  reqs,             \* GET /wasm/:version requests: [pc, headersSent, statusCode, body,
                    \* written, failure, flushed (headersSent when the failure happened)]
  sinks,            \* the WritableStreams connectStreams pipes stdout and stderr into:
                    \* [st, rendered, inline, lost, unhandled]
  cachedVersions,   \* Radare2Terminal state cachedVersions
  listCall,         \* the fetchCachedVersions call in flight: "idle", "open" (awaiting
                    \* caches.open) or "keys" (awaiting cache.keys)
  tabRefs,          \* tabRefs.current: per tab id, the session whose handle the ref holds
                    \* (0: no entry, or current is null)
  sess,             \* every R2Tab mounted on the page so far: [tab, st, launches]
  ops,              \* Save File and view operations: [kind, tab, wrote, st, read]
  pageUp            \* the Radare2Terminal page is mounted

\* the page's package loading
loading == <<cacheVersion, url, binaryCache, loader, downloadPhase, downloadProgress,
             isDownloading, resolveLog, visits>>

\* the side-channel views
scraping == <<mydir, r2queue, calls, viewData>>

\* the hex view
hexing == <<px, hexData, showHexView>>

\* the tab bar
tabbing == <<tabs, activeTab>>

\* the version gates of the sidebar
versioning == <<currentVersion, offered>>

\* the proxy service
proxying == <<proc, reqs>>

\* output rendering
streaming == <<sinks>>

\* the list of cached versions
listing == <<cachedVersions, listCall>>

\* the sessions of all tabs, as the page sees them
paging == <<tabRefs, sess, ops, pageUp>>

\* everything outside the terminal session
ext == <<loading, scraping, hexing, tabbing, versioning, proxying, streaming, listing, paging>>
notLoading == <<scraping, hexing, tabbing, versioning, proxying, streaming, listing, paging>>
notScraping == <<loading, hexing, tabbing, versioning, proxying, streaming, listing, paging>>
notHexing == <<loading, scraping, tabbing, versioning, proxying, streaming, listing, paging>>
notTabbing == <<loading, scraping, hexing, versioning, proxying, streaming, listing, paging>>
notVersioning == <<loading, scraping, hexing, tabbing, proxying, streaming, listing, paging>>
notProxying == <<loading, scraping, hexing, tabbing, versioning, streaming, listing, paging>>
notStreaming == <<loading, scraping, hexing, tabbing, versioning, proxying, listing, paging>>
notListing == <<loading, scraping, hexing, tabbing, versioning, proxying, streaming, paging>>
notPaging == <<loading, scraping, hexing, versioning, proxying, streaming, listing>>

vars == <<pkg, file, mounted, termInstance, r2Writer, instance, dir, inst, onDataRef,
          attached, closing, disposing, disposed, noFileErrors, currentInput, history,
          historyIndex, cancelController, pastes, out, ext>>

react == <<r2Writer, instance, dir>>
closure == <<currentInput, history, historyIndex, cancelController>>
page == <<pkg, file, mounted, termInstance>>
session == <<pkg, file, mounted, termInstance, r2Writer, instance, dir, inst, onDataRef,
             attached, closing, disposing, disposed, noFileErrors, currentInput, history,
             historyIndex, cancelController, pastes, out>>
\* the session without the package it is given
tab == <<file, mounted, termInstance, react, inst, onDataRef, attached, closing, disposing,
         disposed, noFileErrors, closure, pastes, out>>

InstIds == 1..MaxInst
Renders == 0..MaxInst

NoInst == [st |-> "none", cap |-> 0, closed |-> FALSE]
NoOut == [key |-> "", to |-> 0, dead |-> FALSE, stdin |-> <<>>, term |-> <<>>, line |-> ""]

\* ---------------------------------------------------------------- helpers
Allocated == {i \in InstIds : inst[i].st # "none"}
Live == {i \in InstIds : inst[i].st = "running"}

RECURSIVE SumUpTo(_, _)
SumUpTo(f, n) == IF n < 0 THEN 0 ELSE f[n] + SumUpTo(f, n - 1)
ClosingCount == SumUpTo(closing, MaxInst)

\* writer.close(): the writer of launch k is closed (k = 0: r2Writer is undefined)
CloseWriter(k, m) == [i \in InstIds |-> IF i = k THEN [m[i] EXCEPT !.closed = TRUE] ELSE m[i]]
\* instance.free(): frees launch k (k = 0: instance is null; a second free throws and is caught)
FreeInstance(k, m) == [i \in InstIds |-> IF i = k /\ m[i].st = "running" THEN [m[i] EXCEPT !.st = "freed"] ELSE m[i]]

RECURSIVE Flatten(_)
Flatten(chunks) == IF chunks = <<>> THEN <<>> ELSE Head(chunks) \o Flatten(Tail(chunks))

RECURSIVE TrimStart(_)
TrimStart(s) == IF s # <<>> /\ Head(s) \in Whitespace THEN TrimStart(Tail(s)) ELSE s
RECURSIVE TrimEnd(_)
TrimEnd(s) == IF s # <<>> /\ s[Len(s)] \in Whitespace THEN TrimEnd(SubSeq(s, 1, Len(s) - 1)) ELSE s
Trim(s) == TrimEnd(TrimStart(s))

IsPrefix(s, l) == Len(s) =< Len(l) /\ SubSeq(l, 1, Len(s)) = s
Typable(s) == \E l \in TypedLines : IsPrefix(s, l)

\* the listener that receives terminal input, if any
Listening == termInstance = "open" /\ onDataRef # 0 /\ onDataRef \in attached
\* a write on the stdin writer of launch k fails: closed writer or freed instance
Dead(k) == inst[k].closed \/ inst[k].st = "freed"

\* ------------------------------------------------- package loading: state
Versions == {"6.0.9", "6.0.8"}

\* a progress value: the fraction n / d
Pct(x) == [n |-> x, d |-> 1]
Leq(a, b) == a.n * b.d =< b.n * a.d
Is(a, x) == a.n = x * a.d

\* mutant of ChunkProgress: the cap at 80 is missing
ChunkProgress_NoCap(ld, tot) == [n |-> 30 * tot + 50 * ld, d |-> tot]

\* Math.min(30 + (loaded / total) * 50, 80)
ChunkProgress(ld, tot) ==
  IF 30 * tot + 50 * ld =< 80 * tot THEN [n |-> 30 * tot + 50 * ld, d |-> tot] ELSE Pct(80)

\* nothing of this page load has happened yet
NoLog == [hit |-> FALSE, fetches |-> 0, phases |-> <<>>, progress |-> <<>>, failure |-> "none",
          expectHit |-> FALSE]
NoCall == [pc |-> "idle", total |-> 0, loaded |-> 0]

\* the Radare2Terminal state a mount starts from
PageMount ==
  /\ downloadPhase = "initializing"
  /\ downloadProgress = Pct(0)
  /\ isDownloading = FALSE

\* first visit of the app: Home is shown, nothing is cached
LoadIdle ==
  /\ cacheVersion = FALSE
  /\ url = [version |-> "6.0.9", doCache |-> FALSE]
  /\ binaryCache = {}
  /\ loader = NoCall
  /\ PageMount
  /\ resolveLog = NoLog
  /\ visits = [loads |-> 0, servedDefault |-> {}]

\* ------------------------------------------------------ side-channel views: state
Kinds == {"strings", "hexdump", "graph"}
NoFile == [call |-> 0, wellFormed |-> TRUE]

ScrapeIdle ==
  /\ mydir = [kind \in Kinds |-> NoFile]
  /\ r2queue = <<>>
  /\ calls = <<>>
  /\ viewData = [kind \in Kinds |-> 0]

HexIdle ==
  /\ px = <<>>
  /\ hexData = <<>>
  /\ showHexView = FALSE

\* useState([0]), useState(0)
TabsInitial ==
  /\ tabs = <<0>>
  /\ activeTab = 0

\* ------------------------------------------------------ version gates: state
DecimalDigits == <<"0", "1", "2", "3", "4", "5", "6", "7", "8", "9">>

\* a number written in decimal
RECURSIVE Decimal(_)
Decimal(n) ==
  IF n < 10 THEN <<DecimalDigits[n + 1]>>
  ELSE Decimal(n \div 10) \o <<DecimalDigits[(n % 10) + 1]>>

\* the release tags the version picker lets through (/^\d+\.\d+\.\d+$/)
ReleaseTags ==
  {Decimal(x) \o <<".">> \o Decimal(y) \o <<".">> \o Decimal(z) :
     x \in 0..MaxComponent, y \in 0..MaxComponent, z \in 0..MaxComponent}

\* the UTF-16 code unit of a character of a tag
CodeUnit(c) ==
  CASE c = "." -> 46
    [] c = "0" -> 48 [] c = "1" -> 49 [] c = "2" -> 50 [] c = "3" -> 51 [] c = "4" -> 52
    [] c = "5" -> 53 [] c = "6" -> 54 [] c = "7" -> 55 [] c = "8" -> 56 [] c = "9" -> 57

\* a < b on strings: the first differing code unit decides; a proper prefix is smaller
RECURSIVE StrLess(_, _)
StrLess(a, b) ==
  IF b = <<>> THEN FALSE
  ELSE IF a = <<>> THEN TRUE
  ELSE IF Head(a) # Head(b) THEN CodeUnit(Head(a)) < CodeUnit(Head(b))
  ELSE StrLess(Tail(a), Tail(b))

\* a >= b on strings
StrGeq(a, b) == ~StrLess(a, b)

\* what the sidebar offers for a currentVersion
Offered(v) ==
  (IF StrGeq(v, <<"6", ".", "0", ".", "9">>) THEN {"structured", "graph"} ELSE {})
    \cup (IF StrGeq(v, <<"6", ".", "0", ".", "3">>) THEN {"save"} ELSE {})

\* useState(""): the page's first render, before its effect has read the URL; once a
\* package is set the effect has run, with the default version
VersionInitial ==
  /\ currentVersion = IF pkg THEN <<"6", ".", "0", ".", "9">> ELSE <<>>
  /\ offered = Offered(currentVersion)

\* ------------------------------------------------------------ proxy: state
ReqIds == 1..MaxReqs

\* a request the proxy has not received yet; Express starts a response with status 200
NoReq == [pc |-> "none", headersSent |-> FALSE, statusCode |-> 200, body |-> "", written |-> 0,
          failure |-> "none", flushed |-> FALSE]

ProxyIdle ==
  /\ proc = "up"
  /\ reqs = [r \in ReqIds |-> NoReq]

\* ------------------------------------------------- output rendering: state
Streams == {"stdout", "stderr"}

\* the sink of a stream: open once connectStreams has run
SinksInitial ==
  sinks = [s \in Streams |->
             [st |-> IF instance # 0 THEN "open" ELSE "none", rendered |-> 0, inline |-> 0,
              lost |-> 0, unhandled |-> FALSE]]

\* ---------------------------------------------- cached version list: state

\* useState([]); a mounted page has called fetchCachedVersions in its first render
ListInitial ==
  /\ cachedVersions = {}
  /\ listCall = IF mounted THEN "open" ELSE "idle"

\* ----------------------------------------------------- page sessions: state
TabIds == 0..MaxTabId
SessIds == 1..MaxSess

NoSess == [tab |-> -1, up |-> FALSE, st |-> "none", launches |-> 0, disposed |-> FALSE]

\* a mounted page shows tab 0, whose R2Tab is the session followed above
PageInitial ==
  /\ pageUp = mounted
  /\ tabRefs = [id \in TabIds |-> IF id = 0 /\ mounted THEN 1 ELSE 0]
  /\ sess = [n \in SessIds |->
              IF n = 1 /\ mounted
                THEN [tab |-> 0, up |-> TRUE,
                      st |-> IF instance # 0 THEN "running"
                             ELSE IF dir # 0 THEN "launching" ELSE "idle",
                      launches |-> IF dir # 0 THEN 1 ELSE 0, disposed |-> FALSE]
                ELSE NoSess]
  /\ ops = <<>>

ExtInit ==
  /\ LoadIdle /\ ScrapeIdle /\ HexIdle /\ TabsInitial /\ VersionInitial
  /\ ProxyIdle /\ SinksInitial /\ ListInitial /\ PageInitial

Init ==
  /\ pkg = FALSE
  /\ file \in BOOLEAN
  /\ mounted = TRUE
  /\ termInstance = "open"
  /\ r2Writer = 0 /\ instance = 0 /\ dir = 0
  /\ inst = [i \in InstIds |-> NoInst]
  /\ onDataRef = 0
  /\ attached = {}
  /\ closing = [k \in Renders |-> 0]
  /\ disposing = -1
  /\ disposed = FALSE
  /\ noFileErrors = 0
  /\ currentInput = <<>>
  /\ history = <<>>
  /\ historyIndex = -1
  /\ cancelController = FALSE
  /\ pastes = <<>>
  /\ out = NoOut
  /\ ExtInit


\* ------------------------------------------------ session lifecycle (R2Tab)

\* first unused launch id: every run() call takes the next one, with its own Directory
NextId == Cardinality(Allocated) + 1

\* mutant of CreateEffect: the Directory is allocated before the file check
CreateEffect_AllocFirst ==
  /\ mounted /\ ~pkg
  /\ pkg' = TRUE
  /\ dir' = NextId
  /\ IF ~file
       THEN /\ noFileErrors' = noFileErrors + 1
            /\ UNCHANGED inst
       ELSE /\ inst' = [inst EXCEPT ![NextId] = [st |-> "launching", cap |-> 0, closed |-> FALSE]]
            /\ UNCHANGED noFileErrors
  /\ UNCHANGED <<file, mounted, termInstance, r2Writer, instance, onDataRef, attached,
                 closing, disposing, disposed, closure, pastes, out>>
  /\ UNCHANGED ext

\* the create effect: runs in the commit in which pkg becomes non-null; its render saw
\* r2Writer = undefined and instance = null
CreateEffect ==
  /\ mounted /\ ~pkg
  /\ pkg' = TRUE
  /\ IF ~file
       THEN /\ noFileErrors' = noFileErrors + 1
            /\ UNCHANGED <<inst, dir>>
       ELSE /\ inst' = [inst EXCEPT ![NextId] = [st |-> "launching", cap |-> 0, closed |-> FALSE]]
            /\ dir' = NextId
            /\ UNCHANGED noFileErrors
  /\ UNCHANGED <<file, mounted, termInstance, r2Writer, instance, onDataRef, attached,
                 closing, disposing, disposed, closure, pastes, out>>
  /\ UNCHANGED ext

\* mutant of LaunchDone: the listener held by the ref is not disposed before the new one is
\* registered
LaunchDone_KeepsListener(id) ==
  /\ inst[id].st = "launching"
  /\ inst' = [inst EXCEPT ![id].st = "running"]
  /\ IF mounted THEN instance' = id /\ r2Writer' = id ELSE UNCHANGED <<instance, r2Writer>>
  /\ attached' = attached \cup {id}
  /\ onDataRef' = id
  /\ currentInput' = <<>>
  /\ history' = <<>>
  /\ historyIndex' = -1
  /\ cancelController' = FALSE
  /\ UNCHANGED <<page, dir, closing, disposing, disposed, noFileErrors, pastes, out>>
  /\ UNCHANGED ext

\* connectStreams(newInstance, term): exposes the writer, replaces the listener held by
\* the ref and starts a fresh closure
\* pkg.entrypoint.run() resolves: setInstance + connectStreams (state setters are no-ops
\* after unmount; the listener is registered on the terminal either way)
LaunchDone(id) ==
  /\ inst[id].st = "launching"
  /\ inst' = [inst EXCEPT ![id].st = "running"]
  /\ IF mounted THEN instance' = id /\ r2Writer' = id ELSE UNCHANGED <<instance, r2Writer>>
  /\ attached' = (attached \ {onDataRef}) \cup {id}
  /\ onDataRef' = id
  /\ currentInput' = <<>>
  /\ history' = <<>>
  /\ historyIndex' = -1
  /\ cancelController' = FALSE
  /\ UNCHANGED <<page, dir, closing, disposing, disposed, noFileErrors, pastes, out>>
  /\ UNCHANGED ext

\* restartSession, up to the await of r2Writer.close(), in the closure of render k
RestartSession(k) ==
  /\ pkg
  /\ IF ~file
       THEN /\ noFileErrors < MaxErr
            /\ noFileErrors' = noFileErrors + 1
            /\ UNCHANGED <<inst, closing>>
       ELSE /\ Cardinality(Allocated) + ClosingCount < MaxInst
            /\ inst' = CloseWriter(k, inst)
            /\ closing' = [closing EXCEPT ![k] = @ + 1]
            /\ UNCHANGED noFileErrors

\* mutant of RestartLaunch: instance.free() stands outside its try block, so its throw on an
\* instance that is not running ends the restart
RestartLaunch_FreeUnguarded(k) ==
  /\ closing[k] > 0
  /\ closing' = [closing EXCEPT ![k] = @ - 1]
  /\ IF k # 0 /\ inst[k].st # "running"
       THEN UNCHANGED <<inst, dir>>
       ELSE /\ inst' = [FreeInstance(k, inst) EXCEPT ![NextId] = [st |-> "launching", cap |-> k, closed |-> FALSE]]
            /\ dir' = IF mounted THEN NextId ELSE dir
  /\ UNCHANGED <<page, r2Writer, instance, onDataRef, attached, disposing, disposed,
                 noFileErrors, closure, pastes, out>>
  /\ UNCHANGED ext

\* restartSession after the await: free the captured instance, new Directory, run()
RestartLaunch(k) ==
  /\ closing[k] > 0
  /\ closing' = [closing EXCEPT ![k] = @ - 1]
  /\ inst' = [FreeInstance(k, inst) EXCEPT ![NextId] = [st |-> "launching", cap |-> k, closed |-> FALSE]]
  /\ dir' = IF mounted THEN NextId ELSE dir
  /\ UNCHANGED <<page, r2Writer, instance, onDataRef, attached, disposing, disposed,
                 noFileErrors, closure, pastes, out>>
  /\ UNCHANGED ext

\* the handle's restartSession (called by the sidebar button): the closure of the latest
\* render; without pkg it returns at once
HandleRestart ==
  /\ mounted
  /\ RestartSession(instance)
  /\ out' = [NoOut EXCEPT !.key = "restartSession"]
  /\ UNCHANGED <<page, react, onDataRef, attached, disposing, disposed, closure, pastes>>
  /\ UNCHANGED ext

\* tab close handler: ref.dispose() up to its first await, then the tab unmounts (mount
\* effect cleanup disposes the terminal, which drops the listeners registered on it; the
\* create effect cleanup holds render 0)
CloseTab ==
  /\ mounted /\ disposing = -1 /\ ~disposed
  /\ inst' = FreeInstance(0, CloseWriter(0, CloseWriter(r2Writer, inst)))
  /\ disposing' = instance
  /\ mounted' = FALSE
  /\ termInstance' = "disposed"
  /\ attached' = {}
  /\ UNCHANGED <<pkg, file, react, onDataRef, closing, disposed, noFileErrors,
                 closure, pastes, out>>
  /\ UNCHANGED ext

\* dispose() after the await: free, detach the listener held by the ref, dispose the
\* terminal (which drops every listener registered on it)
DisposeFinish ==
  /\ disposing # -1
  /\ inst' = FreeInstance(disposing, inst)
  /\ attached' = {}
  /\ termInstance' = "disposed"
  /\ disposing' = -1
  /\ disposed' = TRUE
  /\ UNCHANGED <<pkg, file, mounted, react, onDataRef, closing, noFileErrors, closure,
                 pastes, out>>
  /\ UNCHANGED ext

\* the part of the session a dispose() call acts on
Session == [inst |-> inst, attached |-> attached, termInstance |-> termInstance]

\* mutant of DisposeCall: instance.free() stands outside its try block
DisposeCall_FreeUnguarded(k, s) ==
  LET closeThrows == k # 0 /\ (s.inst[k].closed \/ s.inst[k].st = "freed")
      freeThrows == k # 0 /\ s.inst[k].st # "running"
      closed == CloseWriter(k, s.inst)
  IN IF freeThrows
       THEN [s |-> [s EXCEPT !.inst = closed],
             caught |-> IF closeThrows THEN {"close"} ELSE {},
             raised |-> {"free"}]
       ELSE [s |-> [s EXCEPT !.inst = FreeInstance(k, closed), !.attached = {},
                             !.termInstance = "disposed"],
             caught |-> IF closeThrows THEN {"close"} ELSE {},
             raised |-> {}]

\* the handle's dispose() of render k run from start to end on session state s: the state
\* afterwards, the steps whose exception its catch blocks swallowed, and the steps whose
\* exception reached the caller.  close() rejects on a closed writer, free() throws on a
\* freed instance; disposing a listener or a terminal again does nothing.
DisposeCall(k, s) ==
  LET closeThrows == k # 0 /\ (s.inst[k].closed \/ s.inst[k].st = "freed")
      freeThrows == k # 0 /\ s.inst[k].st # "running"
  IN [s |-> [s EXCEPT !.inst = FreeInstance(k, CloseWriter(k, s.inst)), !.attached = {},
                      !.termInstance = "disposed"],
      caught |-> (IF closeThrows THEN {"close"} ELSE {}) \cup (IF freeThrows THEN {"free"} ELSE {}),
      raised |-> {}]

\* handleSeekAddress: a sidebar command written through getActiveWriter()
SidebarCommand ==
  /\ mounted /\ r2Writer # 0
  /\ out' = [key |-> "sidebar", to |-> r2Writer, dead |-> Dead(r2Writer),
             stdin |-> << <<"clear\r">>, <<CR>>, <<"s @ ", "0">>, <<CR>> >>,
             term |-> <<>>, line |-> ""]
  /\ UNCHANGED <<page, react, inst, onDataRef, attached, closing, disposing, disposed,
                 noFileErrors, closure, pastes>>
  /\ UNCHANGED ext


\* ------------------------------------- input routing (connectStreams onData)

\* the closure variables of the listener held by onDataDisposableRef
Closure == [currentInput |-> currentInput, history |-> history,
            historyIndex |-> historyIndex, cancelController |-> cancelController]

\* a branch's effect: the closure afterwards, the chunks written to stdin and to the terminal
Effect(h, stdin, term) == [h |-> h, stdin |-> stdin, term |-> term]

\* Ctrl+C
OnCtrlC(h) ==
  IF h.cancelController
    THEN Effect([h EXCEPT !.cancelController = FALSE], << <<CR>> >>, <<"^C\r">>)
    ELSE Effect(h, <<>>, <<>>)

\* mutant of OnEnter: the pending buffer is not reset after the submit
OnEnter_KeepsInput(h, cprompt) ==
  LET push == Trim(h.currentInput) # <<>>
      hist == IF push THEN Append(h.history, h.currentInput) ELSE h.history
  IN Effect([h EXCEPT !.history = hist,
                      !.historyIndex = IF push THEN Len(hist) ELSE h.historyIndex],
            <<h.currentInput, <<CR>> >>,
            IF ~push THEN <<>>
            ELSE IF cprompt THEN <<"ESC[2K\r", "[0x]", " ">> ELSE <<"ESC[2K\r]> ">>)

\* Enter; cprompt: the terminal's cursor line matches /\[0x.*\]/
OnEnter(h, cprompt) ==
  LET push == Trim(h.currentInput) # <<>>
      hist == IF push THEN Append(h.history, h.currentInput) ELSE h.history
  IN Effect([h EXCEPT !.history = hist,
                      !.historyIndex = IF push THEN Len(hist) ELSE h.historyIndex,
                      !.currentInput = <<>>],
            <<h.currentInput, <<CR>> >>,
            IF ~push THEN <<>>
            ELSE IF cprompt THEN <<"ESC[2K\r", "[0x]", " ">> ELSE <<"ESC[2K\r]> ">>)

\* history[j] with the code's 0-based index
At(hist, j) == hist[j + 1]

\* mutant of OnArrowUp: at the oldest entry the cursor wraps to the newest
OnArrowUp_Wraps(h) ==
  LET j == IF h.historyIndex > 0 THEN h.historyIndex - 1 ELSE Len(h.history) - 1
  IN IF h.historyIndex >= 0 /\ j >= 0
       THEN Effect([h EXCEPT !.historyIndex = j, !.currentInput = At(h.history, j)],
                   <<>>, <<"ESC[2K\r">> \o At(h.history, j))
       ELSE Effect(h, <<>>, <<>>)

\* Up arrow
OnArrowUp(h) ==
  IF h.historyIndex > 0
    THEN Effect([h EXCEPT !.historyIndex = h.historyIndex - 1,
                          !.currentInput = At(h.history, h.historyIndex - 1)],
                <<>>, <<"ESC[2K\r">> \o At(h.history, h.historyIndex - 1))
    ELSE Effect(h, <<>>, <<>>)

\* Down arrow
OnArrowDown(h) ==
  IF h.historyIndex < Len(h.history) - 1
    THEN Effect([h EXCEPT !.historyIndex = h.historyIndex + 1,
                          !.currentInput = At(h.history, h.historyIndex + 1)],
                <<>>, <<"ESC[2K\r">> \o At(h.history, h.historyIndex + 1))
    ELSE IF h.historyIndex = Len(h.history) - 1
    THEN Effect([h EXCEPT !.historyIndex = h.historyIndex + 1, !.currentInput = <<>>],
                <<>>, <<"ESC[2K\r">>)
    ELSE Effect(h, <<>>, <<>>)

\* Backspace
OnBackspace(h) ==
  IF Len(h.currentInput) > 0
    THEN Effect([h EXCEPT !.currentInput = SubSeq(h.currentInput, 1, Len(h.currentInput) - 1)],
                <<>>, <<"ESC[D ESC[D">>)
    ELSE Effect(h, <<>>, <<>>)

\* any other unit, then the cancelController block that only this branch reaches
OnOther(h, data) ==
  Effect([h EXCEPT !.currentInput = h.currentInput \o <<data>>, !.cancelController = TRUE],
         <<>>, <<data>>)

\* Ctrl+F and Ctrl+G: prompt() returned answer (<<>>: cancelled or empty)
OnPrompt(h, cmd, answer) ==
  IF answer # <<>> THEN Effect(h, <<cmd \o answer, <<CR>> >>, <<>>) ELSE Effect(h, <<>>, <<>>)

\* which branch of the if-chain a unit takes
Branch(data) ==
  IF data = CTRL_C THEN "interrupt"
  ELSE IF data = CTRL_V THEN "paste"
  ELSE IF data = CTRL_R \/ data = "R" THEN "restart"
  ELSE IF data = CTRL_L \/ data = "L" THEN "clear"
  ELSE IF data = CTRL_F \/ data = "F" THEN "find"
  ELSE IF data = CTRL_G \/ data = "G" THEN "goto"
  ELSE IF data = CR THEN "submit"
  ELSE IF data = UP THEN "previous"
  ELSE IF data = DOWN THEN "next"
  ELSE IF data = DEL THEN "erase"
  ELSE "other"

\* the listener's writes go to the stdin writer its connectStreams call obtained
Apply(data, e, ln) ==
  /\ currentInput' = e.h.currentInput
  /\ history' = e.h.history
  /\ historyIndex' = e.h.historyIndex
  /\ cancelController' = e.h.cancelController
  /\ out' = [key |-> Branch(data), to |-> onDataRef, dead |-> e.stdin # <<>> /\ Dead(onDataRef),
             stdin |-> e.stdin, term |-> e.term, line |-> ln]

lifecycle == <<page, react, inst, onDataRef, attached, closing, disposing, disposed, noFileErrors>>

KeyCtrlC ==
  /\ Listening
  /\ Apply(CTRL_C, OnCtrlC(Closure), "")
  /\ UNCHANGED <<lifecycle, pastes>>
  /\ UNCHANGED ext

KeyEnter ==
  /\ Listening
  /\ Trim(currentInput) # <<>> => Len(history) < MaxHist
  /\ \E cprompt \in BOOLEAN : Apply(CR, OnEnter(Closure, cprompt), "")
  /\ pastes' = [i \in DOMAIN pastes |->
                  IF pastes[i].to = onDataRef THEN [pastes[i] EXCEPT !.stale = TRUE] ELSE pastes[i]]
  /\ UNCHANGED lifecycle
  /\ UNCHANGED ext

KeyArrowUp ==
  /\ Listening
  /\ Apply(UP, OnArrowUp(Closure), "")
  /\ UNCHANGED <<lifecycle, pastes>>
  /\ UNCHANGED ext

KeyArrowDown ==
  /\ Listening
  /\ Apply(DOWN, OnArrowDown(Closure), "")
  /\ UNCHANGED <<lifecycle, pastes>>
  /\ UNCHANGED ext

KeyBackspace ==
  /\ Listening
  /\ Apply(DEL, OnBackspace(Closure), "")
  /\ UNCHANGED <<lifecycle, pastes>>
  /\ UNCHANGED ext

KeyOther(data) ==
  /\ Listening
  /\ Branch(data) = "other"
  /\ Typable(currentInput \o <<data>>)
  /\ Apply(data, OnOther(Closure, data), "")
  /\ UNCHANGED <<lifecycle, pastes>>
  /\ UNCHANGED ext

KeyClear(data) ==
  /\ Listening
  /\ Branch(data) = "clear"
  /\ Apply(data, Effect(Closure, <<>>, <<"<clear>">>), "")
  /\ UNCHANGED <<lifecycle, pastes>>
  /\ UNCHANGED ext

KeyFind(data) ==
  /\ Listening
  /\ Branch(data) = "find"
  /\ \E answer \in PromptAnswers : Apply(data, OnPrompt(Closure, <<"/", " ">>, answer), "")
  /\ UNCHANGED <<lifecycle, pastes>>
  /\ UNCHANGED ext

KeyGoto(data) ==
  /\ Listening
  /\ Branch(data) = "goto"
  /\ \E answer \in PromptAnswers : Apply(data, OnPrompt(Closure, <<"s", " ">>, answer), "")
  /\ UNCHANGED <<lifecycle, pastes>>
  /\ UNCHANGED ext

\* Ctrl+R: the restartSession of the render whose connectStreams registered the listener
KeyRestart(data) ==
  /\ Listening
  /\ Branch(data) = "restart"
  /\ RestartSession(inst[onDataRef].cap)
  /\ Apply(data, Effect(Closure, <<>>, <<"Restarting session...">>), "")
  /\ UNCHANGED <<page, react, onDataRef, attached, disposing, disposed, pastes>>
  /\ UNCHANGED ext

\* Ctrl+V: starts navigator.clipboard.readText()
KeyCtrlV ==
  /\ Listening
  /\ Len(pastes) < MaxPaste
  /\ pastes' = Append(pastes, [to |-> onDataRef, stale |-> FALSE])
  /\ Apply(CTRL_V, Effect(Closure, <<>>, <<>>), "")
  /\ UNCHANGED lifecycle
  /\ UNCHANGED ext

Without(seq, i) == SubSeq(seq, 1, i - 1) \o SubSeq(seq, i + 1, Len(seq))

\* readText() resolves: currentInput of the closure that started the read grows by text.
\* line: "pending" if that closure's line is still the one pending at Ctrl+V, "later" if a
\* submit came in between, "detached" if the closure's listener has been replaced.
PasteResolve(i, text) ==
  /\ i \in DOMAIN pastes
  /\ pastes[i].to = onDataRef => Typable(currentInput \o text)
  /\ pastes' = Without(pastes, i)
  /\ currentInput' = IF pastes[i].to = onDataRef THEN currentInput \o text ELSE currentInput
  /\ out' = [key |-> "clipboard", to |-> pastes[i].to, dead |-> FALSE, stdin |-> <<>>,
             term |-> text,
             line |-> IF pastes[i].to # onDataRef THEN "detached"
                      ELSE IF pastes[i].stale THEN "later" ELSE "pending"]
  /\ UNCHANGED <<lifecycle, history, historyIndex, cancelController>>
  /\ UNCHANGED ext

\* readText() rejects
PasteReject(i) ==
  /\ i \in DOMAIN pastes
  /\ pastes' = Without(pastes, i)
  /\ out' = [NoOut EXCEPT !.key = "clipboard", !.to = pastes[i].to,
                          !.term = <<"\r\nError: Failed to read clipboard\r\n">>]
  /\ UNCHANGED <<lifecycle, closure>>
  /\ UNCHANGED ext

\* --------------------------- package loading (Home, Radare2Terminal effect)

\* Home: the caching checkbox
ToggleCacheVersion ==
  /\ loader.pc = "idle"
  /\ cacheVersion' = ~cacheVersion
  /\ UNCHANGED <<url, binaryCache, loader, downloadPhase, downloadProgress, isDownloading,
                 resolveLog, visits, pkg, tab>>
  /\ UNCHANGED notLoading

\* Home: onOpenRadare2 navigates to /r2?version=v&cache=<cacheVersion>; the page mounts and
\* its effect starts initializeWasmer, which runs up to the await of cache.match
OnOpenRadare2(v) ==
  /\ loader.pc = "idle"
  /\ visits.loads < MaxLoads
  /\ url' = [version |-> v, doCache |-> cacheVersion]
  /\ loader' = [NoCall EXCEPT !.pc = "match"]
  /\ downloadPhase' = "initializing"
  /\ downloadProgress' = Pct(0)
  /\ isDownloading' = FALSE
  /\ resolveLog' = [NoLog EXCEPT !.expectHit = v \in visits.servedDefault]
  /\ visits' = [visits EXCEPT !.loads = @ + 1]
  /\ mounted' = TRUE
  /\ termInstance' = "open"
  /\ UNCHANGED <<cacheVersion, binaryCache, pkg, file, react, inst, onDataRef, attached,
                 closing, disposing, disposed, noFileErrors, closure, pastes, out>>
  /\ UNCHANGED notLoading

\* mutant of CacheLookup: the cache hit does not return
CacheLookup_NoReturn ==
  /\ loader.pc = "match"
  /\ downloadPhase' = "downloading"
  /\ isDownloading' = TRUE
  /\ downloadProgress' = Pct(30)
  /\ loader' = [loader EXCEPT !.pc = "fetch"]
  /\ resolveLog' = [resolveLog EXCEPT !.hit = url.version \in binaryCache,
                                      !.fetches = @ + 1,
                                      !.phases = @ \o <<"initializing", "downloading">>,
                                      !.progress = @ \o <<Pct(10), Pct(30)>>]
  /\ UNCHANGED <<pkg, cacheVersion, url, binaryCache, visits, tab>>
  /\ UNCHANGED notLoading

\* cache.match(version) resolves.  Hit: the package is decoded from the cached bytes and
\* set.  Miss: phase and progress are set and fetch(wasmUrl) is issued.
CacheLookup ==
  /\ loader.pc = "match"
  /\ IF url.version \in binaryCache
       THEN /\ pkg' = TRUE
            /\ loader' = [loader EXCEPT !.pc = "done"]
            /\ resolveLog' = [resolveLog EXCEPT !.hit = TRUE]
            /\ UNCHANGED <<downloadPhase, downloadProgress, isDownloading>>
       ELSE /\ downloadPhase' = "downloading"
            /\ isDownloading' = TRUE
            /\ downloadProgress' = Pct(30)
            /\ loader' = [loader EXCEPT !.pc = "fetch"]
            /\ resolveLog' = [resolveLog EXCEPT !.fetches = @ + 1,
                                                !.phases = @ \o <<"initializing", "downloading">>,
                                                !.progress = @ \o <<Pct(10), Pct(30)>>]
            /\ UNCHANGED pkg
  /\ UNCHANGED <<cacheVersion, url, binaryCache, visits, tab>>
  /\ UNCHANGED notLoading

\* fetch rejects: caught, the downloading state ends, initializeWasmer returns
FetchRejects ==
  /\ loader.pc = "fetch"
  /\ isDownloading' = FALSE
  /\ loader' = [loader EXCEPT !.pc = "returned"]
  /\ resolveLog' = [resolveLog EXCEPT !.failure = "fetch"]
  /\ UNCHANGED <<cacheVersion, url, binaryCache, downloadPhase, downloadProgress, visits,
                 pkg, tab>>
  /\ UNCHANGED notLoading

\* fetch resolves with a response, ok or with an error status (response.ok is not looked
\* at); contentLength: the parsed content-length header, 0 when absent or not a number
FetchResolves(ok, contentLength) ==
  /\ loader.pc = "fetch"
  /\ loader' = [pc |-> "read", total |-> contentLength, loaded |-> 0]
  /\ resolveLog' = [resolveLog EXCEPT !.failure = IF ok THEN "none" ELSE "status"]
  /\ UNCHANGED <<cacheVersion, url, binaryCache, downloadPhase, downloadProgress,
                 isDownloading, visits, pkg, tab>>
  /\ UNCHANGED notLoading

\* reader.read() resolves with a chunk of n bytes
ReadChunk(n) ==
  /\ loader.pc = "read"
  /\ loader.loaded + n =< MaxBody
  /\ loader' = [loader EXCEPT !.loaded = @ + n]
  /\ IF loader.total > 0
       THEN /\ downloadProgress' = ChunkProgress(loader.loaded + n, loader.total)
            /\ resolveLog' = [resolveLog EXCEPT
                                !.progress = Append(@, ChunkProgress(loader.loaded + n, loader.total))]
       ELSE UNCHANGED <<downloadProgress, resolveLog>>
  /\ UNCHANGED <<cacheVersion, url, binaryCache, downloadPhase, isDownloading, visits, pkg, tab>>
  /\ UNCHANGED notLoading

\* reader.read() rejects: nothing catches it, initializeWasmer ends there
ReadRejects ==
  /\ loader.pc = "read"
  /\ loader' = [loader EXCEPT !.pc = "rejected"]
  /\ resolveLog' = [resolveLog EXCEPT !.failure = IF @ = "none" THEN "stream" ELSE @]
  /\ UNCHANGED <<cacheVersion, url, binaryCache, downloadPhase, downloadProgress,
                 isDownloading, visits, pkg, tab>>
  /\ UNCHANGED notLoading

\* reader.read() reports done: the chunks are joined and Wasmer.fromWasm decodes them
\* (wellFormed: the bytes are a package; an empty body and the body of an error response
\* never are).  A throw
\* of fromWasm is not caught.  Without doCache the call runs on to the 500 ms timer.
ReadDone(wellFormed) ==
  /\ loader.pc = "read"
  /\ downloadPhase' = IF wellFormed /\ loader.loaded > 0 /\ resolveLog.failure = "none"
                           /\ ~url.doCache
                        THEN "complete" ELSE "processing"
  /\ IF ~wellFormed \/ loader.loaded = 0 \/ resolveLog.failure # "none"
       THEN /\ downloadProgress' = Pct(90)
            /\ loader' = [loader EXCEPT !.pc = "rejected"]
            /\ resolveLog' = [resolveLog EXCEPT
                                !.failure = IF @ = "none" THEN "decode" ELSE @,
                                !.phases = Append(@, "processing"),
                                !.progress = @ \o <<Pct(85), Pct(90)>>]
            /\ UNCHANGED pkg
       ELSE /\ pkg' = TRUE
            /\ IF url.doCache
                 THEN /\ downloadProgress' = Pct(95)
                      /\ loader' = [loader EXCEPT !.pc = "put"]
                      /\ resolveLog' = [resolveLog EXCEPT
                                          !.phases = Append(@, "processing"),
                                          !.progress = @ \o <<Pct(85), Pct(90), Pct(95)>>]
                 ELSE /\ downloadProgress' = Pct(100)
                      /\ loader' = [loader EXCEPT !.pc = "timer"]
                      /\ resolveLog' = [resolveLog EXCEPT
                                          !.phases = @ \o <<"processing", "complete">>,
                                          !.progress = @ \o <<Pct(85), Pct(90), Pct(95), Pct(100)>>]
  /\ UNCHANGED <<cacheVersion, url, binaryCache, isDownloading, visits, tab>>
  /\ UNCHANGED notLoading

\* mutant of CachePutResolves: the phase is left for the timer to set
CachePutResolves_PhaseLate ==
  /\ loader.pc = "put"
  /\ binaryCache' = binaryCache \cup {url.version}
  /\ downloadProgress' = Pct(100)
  /\ loader' = [loader EXCEPT !.pc = "timer"]
  /\ resolveLog' = [resolveLog EXCEPT !.progress = Append(@, Pct(100))]
  /\ UNCHANGED <<cacheVersion, url, downloadPhase, isDownloading, visits, pkg, tab>>
  /\ UNCHANGED notLoading

\* cache.put(version, response) resolves: the call runs on to the 500 ms timer
CachePutResolves ==
  /\ loader.pc = "put"
  /\ binaryCache' = binaryCache \cup {url.version}
  /\ downloadProgress' = Pct(100)
  /\ downloadPhase' = "complete"
  /\ loader' = [loader EXCEPT !.pc = "timer"]
  /\ resolveLog' = [resolveLog EXCEPT !.phases = Append(@, "complete"),
                                      !.progress = Append(@, Pct(100))]
  /\ UNCHANGED <<cacheVersion, url, isDownloading, visits, pkg, tab>>
  /\ UNCHANGED notLoading

\* cache.put rejects (quota, storage failure): nothing catches it
CachePutRejects ==
  /\ loader.pc = "put"
  /\ loader' = [loader EXCEPT !.pc = "rejected"]
  /\ resolveLog' = [resolveLog EXCEPT !.failure = "put"]
  /\ UNCHANGED <<cacheVersion, url, binaryCache, downloadPhase, downloadProgress,
                 isDownloading, visits, pkg, tab>>
  /\ UNCHANGED notLoading

\* setTimeout(() => setIsDownloading(false), 500) fires
HideDownload ==
  /\ loader.pc = "timer"
  /\ isDownloading' = FALSE
  /\ loader' = [loader EXCEPT !.pc = "done"]
  /\ UNCHANGED <<cacheVersion, url, binaryCache, downloadPhase, downloadProgress,
                 resolveLog, visits, pkg, tab>>
  /\ UNCHANGED notLoading

\* the page's "cached versions" list: the entry of version v is deleted
DeleteCachedVersion(v) ==
  /\ loader.pc # "idle"
  /\ v \in binaryCache
  /\ binaryCache' = binaryCache \ {v}
  /\ visits' = [visits EXCEPT !.servedDefault = @ \ {v}]
  /\ UNCHANGED <<cacheVersion, url, loader, downloadPhase, downloadProgress, isDownloading,
                 resolveLog, pkg, tab>>
  /\ UNCHANGED notLoading

\* the initializeWasmer call of this page load has ended: returned, or stopped at a
\* rejection nothing handles
Ended == loader.pc \in {"done", "returned", "rejected"}

\* handleNavigateHome once the resolve has ended: the tab is disposed, the page unmounts,
\* Home mounts with its initial state
HandleNavigateHome ==
  /\ Ended
  /\ inst' = DisposeCall(instance, Session).s.inst
  /\ attached' = DisposeCall(instance, Session).s.attached
  /\ termInstance' = DisposeCall(instance, Session).s.termInstance
  /\ mounted' = FALSE
  /\ pkg' = FALSE
  /\ cacheVersion' = FALSE
  /\ loader' = NoCall
  /\ visits' = [visits EXCEPT !.servedDefault =
                  IF loader.pc = "done" /\ ~url.doCache THEN @ \cup {url.version} ELSE @]
  /\ downloadPhase' = "initializing"
  /\ downloadProgress' = Pct(0)
  /\ isDownloading' = FALSE
  /\ resolveLog' = NoLog
  /\ UNCHANGED <<url, binaryCache, file, react, onDataRef, closing, disposing, disposed,
                 noFileErrors, closure, pastes, out>>
  /\ UNCHANGED notLoading

\* ------------- side-channel views (handleShowStrings / Hexdump / Graph)

\* the command lines a view writes to stdin, the last one redirecting into its file
ScrapeCommands(kind) ==
  IF kind = "strings"
    THEN <<"?e \"\\ec\"", CR, "?e [I] Loading...", CR, "izj > mydir/.strings", CR>>
  ELSE IF kind = "hexdump"
    THEN <<"?e \"\\ec\"", CR, "?e [I] Loading...", CR, "px > mydir/.hexdump", CR>>
  ELSE <<"?e \"\\ec\"", CR, "aa", CR, "clear\r", CR, "?e [I] Loading...", CR,
         "agfma > mydir/.graph", CR>>

\* the call has reached its end: data set and file removed, or an exception logged
Finished(c) == c.st \in {"parsed", "timeout", "parseError"}

\* handleShowStrings / handleShowHexdump / handleShowGraph up to setTimeout: the commands
\* are written to the active tab's writer and the 1000 ms timer is started.  residual: the
\* view's file is in the Directory although every earlier call for it has finished.
ShowView(kind) ==
  /\ file /\ mounted /\ r2Writer # 0 /\ dir # 0
  /\ Len(calls) < MaxScrapes
  /\ calls' = Append(calls, [kind |-> kind, st |-> "waiting",
                             residual |-> /\ mydir[kind] # NoFile
                                          /\ \A i \in DOMAIN calls :
                                               calls[i].kind = kind => Finished(calls[i]),
                             read |-> NoFile, result |-> 0])
  /\ r2queue' = Append(r2queue, [call |-> Len(calls) + 1, kind |-> kind])
  /\ out' = [key |-> kind, to |-> r2Writer, dead |-> Dead(r2Writer),
             stdin |-> ScrapeCommands(kind), term |-> <<>>, line |-> ""]
  /\ UNCHANGED <<mydir, viewData, lifecycle, closure, pastes, notScraping>>

\* r2 runs the next redirect command: the file holds the output of that call (wellFormed:
\* izj printed text that JSON.parse accepts; px and agfma output is taken as it is)
R2Executes(wellFormed) ==
  /\ r2queue # <<>>
  /\ Head(r2queue).kind # "strings" => wellFormed
  /\ mydir' = [mydir EXCEPT ![Head(r2queue).kind] =
                 [call |-> Head(r2queue).call, wellFormed |-> wellFormed]]
  /\ r2queue' = Tail(r2queue)
  /\ UNCHANGED <<calls, viewData, lifecycle, closure, pastes, out, notScraping>>

\* the 1000 ms timer of call c fires (timers fire in the order they were set):
\* dir.readFile is issued; an absent file makes it reject, which the catch logs
TimerFires(c) ==
  /\ c \in DOMAIN calls
  /\ calls[c].st = "waiting"
  /\ \A i \in 1..(c - 1) : calls[i].st # "waiting"
  /\ calls' = [calls EXCEPT ![c] =
                 IF mydir[calls[c].kind] = NoFile
                   THEN [@ EXCEPT !.st = "timeout"]
                   ELSE [@ EXCEPT !.st = "reading", !.read = mydir[calls[c].kind]]]
  /\ UNCHANGED <<mydir, r2queue, viewData, lifecycle, closure, pastes, out, notScraping>>

\* readFile of call c resolves: decode, parse (JSON.parse for strings; parseHexdump and
\* the graph text never throw), set the view's data, removeFile.  A throw of JSON.parse
\* skips the rest of the try block.
ReadReturns(c) ==
  /\ c \in DOMAIN calls
  /\ calls[c].st = "reading"
  /\ IF calls[c].kind = "strings" /\ ~calls[c].read.wellFormed
       THEN /\ calls' = [calls EXCEPT ![c].st = "parseError"]
            /\ UNCHANGED <<mydir, viewData>>
       ELSE /\ calls' = [calls EXCEPT ![c].st = "parsed", ![c].result = calls[c].read.call]
            /\ viewData' = [viewData EXCEPT ![calls[c].kind] = calls[c].read.call]
            /\ mydir' = [mydir EXCEPT ![calls[c].kind] = NoFile]
  /\ UNCHANGED <<r2queue, lifecycle, closure, pastes, out, notScraping>>

\* ------------------------------------------------------ hex view (parseHexdump)

HexDigits == {"0", "1", "2", "3", "4", "5", "6", "7", "8", "9",
              "a", "b", "c", "d", "e", "f", "A", "B", "C", "D", "E", "F"}

DigitValue(c) ==
  CASE c = "0" -> 0 [] c = "1" -> 1 [] c = "2" -> 2 [] c = "3" -> 3 [] c = "4" -> 4
    [] c = "5" -> 5 [] c = "6" -> 6 [] c = "7" -> 7 [] c = "8" -> 8 [] c = "9" -> 9
    [] c \in {"a", "A"} -> 10 [] c \in {"b", "B"} -> 11 [] c \in {"c", "C"} -> 12
    [] c \in {"d", "D"} -> 13 [] c \in {"e", "E"} -> 14 [] c \in {"f", "F"} -> 15

\* Number.NaN
NaN == "NaN"

\* the value of a digit sequence read in base 16, acc being the value of the digits before;
\* reading stops at the first character that is not a hex digit
RECURSIVE HexPrefixValue(_, _)
HexPrefixValue(s, acc) ==
  IF s = <<>> \/ Head(s) \notin HexDigits THEN acc
  ELSE HexPrefixValue(Tail(s), acc * 16 + DigitValue(Head(s)))

\* parseInt(str, 16) of a token without sign or leading whitespace
ParseInt16(str) ==
  LET body == IF Len(str) >= 2 /\ str[1] = "0" /\ str[2] \in {"x", "X"}
                THEN SubSeq(str, 3, Len(str)) ELSE str
  IN IF body = <<>> \/ Head(body) \notin HexDigits THEN NaN ELSE HexPrefixValue(body, 0)

\* the k-th smallest element of a set of positions
Kth(S, k) == CHOOSE x \in S : Cardinality({y \in S : y < x}) = k - 1

\* str.split("\n"): the pieces between the newlines, empty ones included
SplitLines(str) ==
  LET breaks == {i \in DOMAIN str : str[i] = "\n"}
      from(k) == IF k = 1 THEN 1 ELSE Kth(breaks, k - 1) + 1
      upto(k) == IF k = Cardinality(breaks) + 1 THEN Len(str) ELSE Kth(breaks, k) - 1
  IN [k \in 1..(Cardinality(breaks) + 1) |-> SubSeq(str, from(k), upto(k))]

\* str.split(/\s+/) of a trimmed, non-empty string: the maximal runs without whitespace
SplitWords(str) ==
  LET starts == {i \in DOMAIN str : str[i] \notin Whitespace
                                     /\ (i = 1 \/ str[i - 1] \in Whitespace)}
      ends == {i \in DOMAIN str : str[i] \notin Whitespace
                                   /\ (i = Len(str) \/ str[i + 1] \in Whitespace)}
  IN [k \in 1..Cardinality(starts) |-> SubSeq(str, Kth(starts, k), Kth(ends, k))]

\* /^[0-9a-fA-F]+$/.test(hexGroup) && hexGroup.length >= 2
IsHexGroup(hexGroup) == Len(hexGroup) >= 2 /\ \A i \in DOMAIN hexGroup : hexGroup[i] \in HexDigits

\* the substring(j, j + 2) of a hex group, j = 0, 2, ..., that have length 2
GroupBytes(hexGroup) == [n \in 1..(Len(hexGroup) \div 2) |-> SubSeq(hexGroup, 2 * n - 1, 2 * n)]

\* the loop over parts[1..]: bytes pushed and ascii text collected
RECURSIVE ScanParts(_, _, _)
ScanParts(parts, bytes, ascii) ==
  IF parts = <<>> THEN [bytes |-> bytes, ascii |-> Trim(ascii)]
  ELSE IF IsHexGroup(Head(parts))
    THEN ScanParts(Tail(parts), bytes \o GroupBytes(Head(parts)), ascii)
  ELSE ScanParts(Tail(parts), bytes, ascii \o Head(parts) \o <<" ">>)

\* one iteration of the loop over the lines: the records it pushes (none or one)
ParseLine(line) ==
  IF ~IsPrefix(<<"0", "x">>, line) THEN <<>>
  ELSE LET parts == SplitWords(Trim(line))
           scan == ScanParts(Tail(parts), <<>>, <<>>)
       IN IF Len(parts) < 3 THEN <<>>
          ELSE IF Len(scan.bytes) = 16
            THEN << [offset |-> Head(parts), offsetNum |-> ParseInt16(Head(parts)),
                     bytes |-> scan.bytes, ascii |-> scan.ascii] >>
          ELSE <<>>

RECURSIVE ParseLines(_)
ParseLines(linesArray) ==
  IF linesArray = <<>> THEN <<>>
  ELSE (IF Trim(Head(linesArray)) = <<>> THEN <<>> ELSE ParseLine(Head(linesArray)))
       \o ParseLines(Tail(linesArray))

parseHexdump(output) == ParseLines(SplitLines(output))

\* ---- what r2's px prints
Spaces(n) == [i \in 1..n |-> " "]

\* the hex column: bytes in groups of two, groups separated by one space
RECURSIVE HexColumn(_)
HexColumn(bytes) ==
  IF bytes = <<>> THEN <<>>
  ELSE IF Len(bytes) = 1 THEN bytes[1]
  ELSE bytes[1] \o bytes[2] \o (IF Len(bytes) > 2 THEN <<" ">> ELSE <<>>)
       \o HexColumn(SubSeq(bytes, 3, Len(bytes)))

\* the text of one printed line
LineText(l) ==
  IF l.kind = "header" THEN <<"-", " ", "o", "f", "f", "s", "e", "t", " ", "-", " ", " ",
                              "0", " ", "1", " ", " ", "2", " ", "3">>
  ELSE IF l.kind = "blank" THEN Spaces(2)
  ELSE (IF l.lead THEN <<" ">> ELSE <<>>) \o <<"0", "x">> \o l.digits \o Spaces(2)
       \o HexColumn(l.bytes)
       \o (IF l.ascii = <<>> THEN <<>> ELSE Spaces(2) \o l.ascii)

\* the file's text: the lines, each followed by a newline
RECURSIVE DumpText(_)
DumpText(ls) == IF ls = <<>> THEN <<>> ELSE LineText(Head(ls)) \o <<"\n">> \o DumpText(Tail(ls))

\* rows px can print: n bytes 7f 45 7f 45 ..., and an ASCII column of one character per byte
RowBytes(n) == [i \in 1..n |-> IF i % 2 = 1 THEN <<"7", "f">> ELSE <<"4", "5">>]
AsciiColumn(shape, n) ==
  IF shape = "dots" THEN [i \in 1..n |-> "."]
  ELSE IF shape = "hex" THEN [i \in 1..n |-> "a"]
  ELSE IF shape = "word" THEN <<"a", "b", "c", "d", " ">> \o [i \in 1..(n - 5) |-> "."]
  ELSE <<>>
Row(lead, digits, n, shape) ==
  [kind |-> "row", lead |-> lead, digits |-> digits, bytes |-> RowBytes(n),
   ascii |-> AsciiColumn(shape, n)]
Other(kind) == [kind |-> kind, lead |-> FALSE, digits |-> <<>>, bytes |-> <<>>, ascii |-> <<>>]

DumpLines ==
  {Row(FALSE, digits, n, shape) :
     digits \in {<<"1", "0">>, <<"1", "f">>}, n \in {14, 15, 16}, shape \in {"dots", "hex", "word"}}
  \cup {Row(TRUE, <<"1", "0">>, 16, "dots"), Row(FALSE, <<"1", "0">>, 2, "none"),
        Other("header"), Other("blank")}

Dumps == UNION {[1..n -> DumpLines] : n \in 0..MaxLines}

\* r2 has run "px > mydir/.hexdump": the file holds a dump
R2WritesDump(dump) ==
  /\ px = <<>> /\ ~showHexView
  /\ dump # <<>>
  /\ px' = dump
  /\ UNCHANGED <<hexData, showHexView, session, notHexing>>

\* handleShowHexdump's timer callback on that file: decode, parse, set hexData, open the
\* view
ShowHexdump ==
  /\ px # <<>> /\ ~showHexView
  /\ hexData' = parseHexdump(DumpText(px))
  /\ showHexView' = TRUE
  /\ UNCHANGED <<px, session, notHexing>>

\* ------------------------------------------------------------------ tab bar

\* the value of an array element that does not exist
Undefined == -2

\* arr[j] with the code's 0-based index
Elem(arr, j) == IF j >= 0 /\ j < Len(arr) THEN arr[j + 1] ELSE Undefined

\* arr.indexOf(x)
IndexOf(arr, x) ==
  IF \E i \in DOMAIN arr : arr[i] = x
    THEN (CHOOSE i \in DOMAIN arr : arr[i] = x /\ \A j \in 1..(i - 1) : arr[j] # x) - 1
    ELSE -1

\* prev.filter(tid => tid !== id)
RECURSIVE Filter(_, _)
Filter(arr, id) ==
  IF arr = <<>> THEN <<>>
  ELSE (IF Head(arr) # id THEN <<Head(arr)>> ELSE <<>>) \o Filter(Tail(arr), id)

\* Math.max(...prev)
MaxOf(arr) == CHOOSE x \in {arr[i] : i \in DOMAIN arr} : \A i \in DOMAIN arr : arr[i] =< x

\* the R2Tab of the tab with id 0, whose session the session variables follow: mounting it
\* anew gives a fresh terminal; closing it disposes the handle and unmounts
TabSessionMounts(id) ==
  IF id = 0
    THEN /\ mounted' = TRUE
         /\ termInstance' = "open"
         /\ UNCHANGED <<inst, attached>>
    ELSE UNCHANGED <<mounted, termInstance, inst, attached>>

TabSessionCloses(id) ==
  IF id = 0
    THEN /\ mounted' = FALSE
         /\ inst' = DisposeCall(instance, Session).s.inst
         /\ attached' = DisposeCall(instance, Session).s.attached
         /\ termInstance' = DisposeCall(instance, Session).s.termInstance
    ELSE UNCHANGED <<mounted, termInstance, inst, attached>>

\* the "+" button
AddTab ==
  LET nextId == IF Len(tabs) > 0 THEN MaxOf(tabs) + 1 ELSE 0
  IN /\ nextId =< MaxTabId
     /\ tabs' = Append(tabs, nextId)
     /\ activeTab' = nextId
     /\ TabSessionMounts(nextId)
     /\ UNCHANGED <<pkg, file, react, onDataRef, closing, disposing, disposed, noFileErrors,
                    closure, pastes, out, notTabbing>>

\* click on a tab button
SelectTab(id) ==
  /\ \E i \in DOMAIN tabs : tabs[i] = id
  /\ activeTab' = id
  /\ UNCHANGED <<tabs, session, notTabbing>>

\* mutant of CloseTabButton: the active tab is not reassigned
CloseTabButton_KeepsActive(id) ==
  /\ \E i \in DOMAIN tabs : tabs[i] = id
  /\ tabs' = Filter(tabs, id)
  /\ UNCHANGED activeTab
  /\ TabSessionCloses(id)
  /\ UNCHANGED <<pkg, file, react, onDataRef, closing, disposing, disposed, noFileErrors,
                 closure, pastes, out, notTabbing>>

\* the "x" of a tab button: dispose the tab's handle, drop the id; when it was the active
\* tab, its left neighbour (or the new first tab) becomes active, or -1 with no tab left
CloseTabButton(id) ==
  /\ \E i \in DOMAIN tabs : tabs[i] = id
  /\ LET idx == IndexOf(tabs, id)
         remaining == Filter(tabs, id)
     IN /\ tabs' = remaining
        /\ activeTab' = IF activeTab = id
                          THEN (IF Len(remaining) > 0
                                  THEN Elem(remaining, IF idx - 1 > 0 THEN idx - 1 ELSE 0)
                                  ELSE -1)
                          ELSE activeTab
  /\ TabSessionCloses(id)
  /\ UNCHANGED <<pkg, file, react, onDataRef, closing, disposing, disposed, noFileErrors,
                 closure, pastes, out, notTabbing>>

\* Alt+digit num
SwitchDigit(num) ==
  /\ activeTab' = Elem(tabs, IF num - 1 < Len(tabs) - 1 THEN num - 1 ELSE Len(tabs) - 1)
  /\ UNCHANGED <<tabs, session, notTabbing>>

\* mutant of SwitchArrow: the index is not wrapped around the ends of the tab list
SwitchArrow_NoWrap(step) ==
  /\ activeTab' = IF Len(tabs) = 0 THEN Undefined
                  ELSE Elem(tabs, IndexOf(tabs, activeTab) + step)
  /\ UNCHANGED <<tabs, session, notTabbing>>

\* Alt+ArrowRight (step = 1) and Alt+ArrowLeft (step = -1); with no tab the index is NaN
SwitchArrow(step) ==
  /\ activeTab' = IF Len(tabs) = 0 THEN Undefined
                  ELSE Elem(tabs, (IndexOf(tabs, activeTab) + step + Len(tabs)) % Len(tabs))
  /\ UNCHANGED <<tabs, session, notTabbing>>

\* ------------------------------------------- version gates of the sidebar

\* the page's effect reads ?version= (param; <<>>: absent) and sets currentVersion; the
\* sidebar is rendered for it
SetCurrentVersion(param) ==
  /\ currentVersion = <<>>
  /\ LET version == IF param # <<>> THEN param ELSE <<"6", ".", "0", ".", "9">>
     IN /\ currentVersion' = version
        /\ offered' = Offered(version)
  /\ UNCHANGED <<session, notVersioning>>

\* the page unmounts; the next mount starts from useState("") again
LeavePage ==
  /\ currentVersion # <<>>
  /\ currentVersion' = <<>>
  /\ offered' = Offered(<<>>)
  /\ UNCHANGED <<session, notVersioning>>

\* Number(s) of a string of decimal digits, acc being the value of the digits before
RECURSIVE NumberOf(_, _)
NumberOf(str, acc) ==
  IF str = <<>> THEN acc
  ELSE NumberOf(Tail(str), acc * 10 + (CodeUnit(Head(str)) - CodeUnit("0")))

\* value.split('.').map(Number)
SplitNumbers(value) ==
  LET dots == {i \in DOMAIN value : value[i] = "."}
      from(k) == IF k = 1 THEN 1 ELSE Kth(dots, k - 1) + 1
      upto(k) == IF k = Cardinality(dots) + 1 THEN Len(value) ELSE Kth(dots, k) - 1
  IN [k \in 1..(Cardinality(dots) + 1) |-> NumberOf(SubSeq(value, from(k), upto(k)), 0)]

\* the version picker's order: va is not older than vb, the first differing of the three
\* components deciding
NotOlder(va, vb) ==
  \/ va = vb
  \/ \E i \in 1..3 : va[i] > vb[i] /\ \A j \in 1..(i - 1) : va[j] = vb[j]

\* ------------------------------------------- proxy (GET /wasm/:version)

\* the stream the handler's 'error' listener is registered on: the chain
\* response.data.pipe(ParseOne).pipe(res).on('error', ...) calls on() on what the last
\* pipe() returns, its destination
ErrorListenerOn == "res"

\* if (!res.headersSent) res.status(500).send(text)
Send500(q, text) ==
  IF q.headersSent THEN q
  ELSE [q EXCEPT !.statusCode = 500, !.body = text, !.headersSent = TRUE, !.pc = "ended"]

\* a request arrives; the handler runs up to the await of axios.get
Receive(r) ==
  /\ proc = "up" /\ reqs[r].pc = "none"
  /\ reqs' = [reqs EXCEPT ![r].pc = "axios"]
  /\ UNCHANGED <<proc, session, notProxying>>

\* axios.get rejects (network error or error status): the catch block answers
AxiosRejects(r) ==
  /\ proc = "up" /\ reqs[r].pc = "axios"
  /\ reqs' = [reqs EXCEPT ![r] =
                Send500([reqs[r] EXCEPT !.failure = "fetch", !.flushed = reqs[r].headersSent],
                        "Error fetching ZIP file")]
  /\ UNCHANGED <<proc, session, notProxying>>

\* axios.get resolves with the archive stream: headers are set (not sent) and the pipes
\* and the listener are set up
AxiosResolves(r) ==
  /\ proc = "up" /\ reqs[r].pc = "axios"
  /\ reqs' = [reqs EXCEPT ![r].pc = "piping"]
  /\ UNCHANGED <<proc, session, notProxying>>

\* ParseOne passes a chunk of the matching entry on to res: the first write sends the
\* headers with status 200
EntryChunk(r) ==
  /\ proc = "up" /\ reqs[r].pc = "piping"
  /\ reqs[r].written < MaxWrites
  /\ reqs' = [reqs EXCEPT ![r].written = @ + 1, ![r].headersSent = TRUE]
  /\ UNCHANGED <<proc, session, notProxying>>

\* the matching entry ends: pipe ends res
EntryEnds(r) ==
  /\ proc = "up" /\ reqs[r].pc = "piping"
  /\ reqs' = [reqs EXCEPT ![r].pc = "ended", ![r].headersSent = TRUE, ![r].body = "wasm"]
  /\ UNCHANGED <<proc, session, notProxying>>

\* a stream of the chain emits 'error': response.data (the download breaks), ParseOne (the
\* archive is malformed, or it ends without an entry matching radare2.wasm) or res (the
\* client connection fails).  pipe() does not pass errors on.  On the stream that has the
\* listener the handler runs; an 'error' event without a listener is thrown, which nothing
\* catches: the process exits and every open connection is reset.
StreamError(r, src) ==
  /\ proc = "up" /\ reqs[r].pc = "piping"
  /\ LET q == [reqs[r] EXCEPT !.failure = IF src = "ParseOne" THEN "extract"
                                          ELSE IF src = "res" THEN "client" ELSE "download",
                              !.flushed = reqs[r].headersSent]
     IN IF src = ErrorListenerOn
          THEN /\ reqs' = [reqs EXCEPT ![r] =
                             IF q.headersSent THEN [q EXCEPT !.pc = "aborted"]
                             ELSE Send500(q, "Error extracting WASM file")]
               /\ UNCHANGED proc
          ELSE /\ proc' = "crashed"
               /\ reqs' = [x \in ReqIds |->
                             IF x = r THEN [q EXCEPT !.pc = "reset"]
                             ELSE IF reqs[x].pc \in {"axios", "piping"}
                               THEN [reqs[x] EXCEPT !.pc = "reset"]
                               ELSE reqs[x]]
  /\ UNCHANGED <<session, notProxying>>

\* ------------------------------ output rendering (connectStreams sinks)

\* the sink's write(chunk) for a chunk the instance wrote to a stream; throws: how many of
\* the term.write calls made for it throw, in the order they are made.  The chunk itself
\* (try), the inline message (catch) - a throw there leaves write(), which errors the
\* WritableStream and rejects pipeTo - and the message of pipeTo's catch, whose throw
\* nothing handles.
SinkWrite(stream, throws) ==
  /\ sinks[stream].st = "open"
  /\ sinks[stream].rendered + sinks[stream].inline < MaxChunks
  /\ sinks' = [sinks EXCEPT ![stream] =
                 IF throws = 0 THEN [@ EXCEPT !.rendered = @ + 1]
                 ELSE IF throws = 1 THEN [@ EXCEPT !.inline = @ + 1]
                 ELSE [@ EXCEPT !.st = "errored", !.lost = 1, !.unhandled = (throws = 3)]]
  /\ UNCHANGED <<session, notStreaming>>

\* the instance writes to a stream whose sink is errored: the pipe is gone, nothing
\* reads the chunk
ChunkUnread(stream) ==
  /\ sinks[stream].st = "errored"
  /\ sinks[stream].lost < MaxChunks
  /\ sinks' = [sinks EXCEPT ![stream].lost = @ + 1]
  /\ UNCHANGED <<session, notStreaming>>

\* ------------------------------- cached version list (fetchCachedVersions)

\* caches.open("wasm-cache") resolves; cache.keys() is awaited
ListOpened ==
  /\ listCall = "open"
  /\ listCall' = "keys"
  /\ UNCHANGED <<cachedVersions, session, notListing>>

\* cache.keys() resolves: setCachedVersions gets a new array of the cached versions (the
\* path of each key without its leading "/").  A new array is a new state value, so the
\* page renders again, and the render body calls fetchCachedVersions() again.
ListKeys ==
  /\ listCall = "keys"
  /\ cachedVersions' = IF mounted THEN binaryCache ELSE cachedVersions
  /\ listCall' = IF mounted THEN "open" ELSE "idle"
  /\ UNCHANGED <<session, notListing>>

\* ------------------------- the sessions of a page (tabRefs, Save File, teardown)

\* R2Tab components mounted so far: each mount takes the next session number
Mounts == Cardinality({n \in SessIds : sess[n].st # "none"})

\* getWriter() of the session's handle is defined: a launch has completed
HasWriter(n) == sess[n].st = "running" \/ (sess[n].st = "launching" /\ sess[n].launches > 1)
\* getDir() of the session's handle is non-null: a launch has started
HasDir(n) == sess[n].launches >= 1

\* tabRefs.current[id]?.current: the session whose handle is under the id, 0 for none
HandleAt(id) == IF id \in TabIds THEN tabRefs[id] ELSE 0
ActiveSess == HandleAt(activeTab)

\* the handle's dispose(): frees the instance of the latest render, if there is one
Dispose(x) == [x EXCEPT !.st = IF x.st = "running" THEN "freed" ELSE x.st, !.disposed = TRUE]

\* the "+" button: the new id is one above the largest open id (0 with no tab open), its
\* ref is created unless tabRefs already has one for that id, and an R2Tab mounts under
\* it, whose create effect launches an instance when package and file are there
TabsAdd ==
  LET nextId == IF Len(tabs) > 0 THEN MaxOf(tabs) + 1 ELSE 0
      n == Mounts + 1
  IN /\ pageUp /\ n =< MaxSess /\ nextId =< MaxTabId
     /\ tabs' = Append(tabs, nextId)
     /\ activeTab' = nextId
     /\ tabRefs' = [tabRefs EXCEPT ![nextId] = n]
     /\ sess' = [sess EXCEPT ![n] = [tab |-> nextId, up |-> TRUE,
                                     st |-> IF pkg /\ file THEN "launching" ELSE "idle",
                                     launches |-> IF pkg /\ file THEN 1 ELSE 0,
                                     disposed |-> FALSE]]
     /\ UNCHANGED <<ops, pageUp, session, notPaging>>

\* the "x" of a tab button: dispose() on the handle under the id, the id leaves tabs, the
\* R2Tab unmounts and React clears its ref (the ref object stays in tabRefs)
TabsClose(id) ==
  /\ pageUp
  /\ \E i \in DOMAIN tabs : tabs[i] = id
  /\ LET idx == IndexOf(tabs, id)
         remaining == Filter(tabs, id)
     IN /\ tabs' = remaining
        /\ activeTab' = IF activeTab = id
                          THEN (IF Len(remaining) > 0
                                  THEN Elem(remaining, IF idx - 1 > 0 THEN idx - 1 ELSE 0)
                                  ELSE -1)
                          ELSE activeTab
  /\ sess' = [n \in SessIds |->
                IF n = HandleAt(id) THEN [Dispose(sess[n]) EXCEPT !.up = FALSE] ELSE sess[n]]
  /\ tabRefs' = [tabRefs EXCEPT ![id] = 0]
  /\ UNCHANGED <<ops, pageUp, session, notPaging>>

\* pkg.entrypoint.run() of a session resolves, whether its R2Tab is still mounted or not
TabLaunched(n) ==
  /\ sess[n].st = "launching"
  /\ sess' = [sess EXCEPT ![n].st = "running"]
  /\ UNCHANGED <<tabRefs, ops, pageUp, tabs, activeTab, session, notPaging>>

\* the Restart button on a running session: restartSession of the active tab's handle
\* (a restart that overlaps a launch is followed in Spec)
TabRestart ==
  /\ pageUp /\ pkg /\ file
  /\ ActiveSess # 0
  /\ sess[ActiveSess].st = "running"
  /\ sess[ActiveSess].launches =< MaxRelaunch
  /\ sess' = [sess EXCEPT ![ActiveSess].st = "launching",
                          ![ActiveSess].launches = @ + 1]
  /\ UNCHANGED <<tabRefs, ops, pageUp, tabs, activeTab, session, notPaging>>

\* handleShowStrings / handleShowHexdump / handleShowGraph up to setTimeout: writer and
\* dir are both taken from the active tab's handle before the commands are written
ViewClick ==
  /\ pageUp /\ file
  /\ Len(ops) < MaxOps
  /\ ActiveSess # 0
  /\ HasWriter(ActiveSess) /\ HasDir(ActiveSess)
  /\ ops' = Append(ops, [kind |-> "view", tab |-> activeTab, wrote |-> ActiveSess,
                         dirOf |-> ActiveSess, st |-> "waiting", read |-> 0])
  /\ UNCHANGED <<tabRefs, sess, pageUp, tabs, activeTab, session, notPaging>>

\* Save File up to the await of the 1000 ms delay: the commands are written to the
\* active tab's writer
SaveFile ==
  /\ pageUp /\ file /\ "save" \in offered
  /\ Len(ops) < MaxOps
  /\ ActiveSess # 0
  /\ HasWriter(ActiveSess)
  /\ ops' = Append(ops, [kind |-> "save", tab |-> activeTab, wrote |-> ActiveSess,
                         dirOf |-> 0, st |-> "waiting", read |-> 0])
  /\ UNCHANGED <<tabRefs, sess, pageUp, tabs, activeTab, session, notPaging>>

\* the 1000 ms of operation o are over (timers fire in the order they were set).  A view
\* reads and removes its file in the dir it took at the click.  Save File looks up
\* tabRefs.current[activeTab] only now, with the activeTab of the click, and reads in the
\* dir of the handle it finds there; without a handle or a dir it does nothing.
OpTimer(o) ==
  /\ o \in DOMAIN ops
  /\ ops[o].st = "waiting"
  /\ \A i \in 1..(o - 1) : ops[i].st # "waiting"
  /\ ops' = [ops EXCEPT ![o] =
               IF @.kind = "view" THEN [@ EXCEPT !.st = "read", !.read = ops[o].dirOf]
               ELSE IF HandleAt(ops[o].tab) # 0 /\ HasDir(HandleAt(ops[o].tab))
                 THEN [@ EXCEPT !.st = "read", !.read = HandleAt(ops[o].tab)]
                 ELSE [@ EXCEPT !.st = "nodir"]]
  /\ UNCHANGED <<tabRefs, sess, pageUp, tabs, activeTab, session, notPaging>>

\* the sessions a teardown disposes: those whose handle refs holds under one of the ids
Reached(refs, ids) == {refs[ids[i]] : i \in DOMAIN ids} \ {0}

\* the page unmounts without handleNavigateHome (the route changes, e.g. browser back).
\* The commit first clears the handle of every R2Tab (useImperativeHandle is a layout
\* effect); the cleanup of the page's mount effect runs after it, over the tabs of its own
\* render, the first one: [0].  The cleanups of an R2Tab dispose its terminal and close
\* and free what the create effect's render saw: nothing.
TabsUnmount ==
  /\ pageUp
  /\ pageUp' = FALSE
  /\ tabRefs' = [id \in TabIds |-> 0]
  /\ sess' = [n \in SessIds |->
                IF sess[n].st = "none" THEN sess[n]
                ELSE IF n \in Reached(tabRefs', <<0>>)
                  THEN [Dispose(sess[n]) EXCEPT !.up = FALSE]
                  ELSE [sess[n] EXCEPT !.up = FALSE]]
  /\ UNCHANGED <<ops, tabs, activeTab, session, notPaging>>

\* handleNavigateHome: dispose() on the handle of every tab of the current render, the
\* package is dropped, tabRefs is emptied, and the page unmounts
TabsNavigateHome ==
  /\ pageUp
  /\ pageUp' = FALSE
  /\ pkg' = FALSE
  /\ tabRefs' = [id \in TabIds |-> 0]
  /\ sess' = [n \in SessIds |->
                IF sess[n].st = "none" THEN sess[n]
                ELSE IF n \in Reached(tabRefs, tabs)
                  THEN [Dispose(sess[n]) EXCEPT !.up = FALSE]
                  ELSE [sess[n] EXCEPT !.up = FALSE]]
  /\ UNCHANGED <<ops, tabs, activeTab, tab, notPaging>>

\* ------------------------------------------------------------ specifications

\* the session from mount on; keystrokes without text (submit of the empty line, restart)
Next ==
  \/ CreateEffect
  \/ \E id \in InstIds : LaunchDone(id)
  \/ HandleRestart
  \/ \E k \in Renders : RestartLaunch(k)
  \/ CloseTab
  \/ DisposeFinish
  \/ SidebarCommand
  \/ KeyEnter
  \/ \E data \in {CTRL_R, "R"} : KeyRestart(data)

Spec == Init /\ [][Next]_vars

\* one stream wiring, from the state in which create has completed (CreateEffect, then
\* LaunchDone(1) in Spec): the whole onData handler and the clipboard continuations; the
\* restarts it requests run on in Spec
InitInput ==
  /\ pkg = TRUE /\ file = TRUE /\ mounted = TRUE /\ termInstance = "open"
  /\ r2Writer = 1 /\ instance = 1 /\ dir = 1
  /\ inst = [i \in InstIds |-> IF i = 1 THEN [st |-> "running", cap |-> 0, closed |-> FALSE] ELSE NoInst]
  /\ onDataRef = 1
  /\ attached = {1}
  /\ closing = [k \in Renders |-> 0]
  /\ disposing = -1
  /\ disposed = FALSE
  /\ noFileErrors = 0
  /\ currentInput = <<>>
  /\ history = <<>>
  /\ historyIndex = -1
  /\ cancelController = FALSE
  /\ pastes = <<>>
  /\ out = NoOut
  /\ ExtInit

NextInput ==
  \/ KeyCtrlC
  \/ KeyCtrlV
  \/ KeyEnter
  \/ KeyArrowUp
  \/ KeyArrowDown
  \/ KeyBackspace
  \/ \E data \in Units : KeyOther(data)
  \/ \E data \in Units : KeyClear(data)
  \/ \E data \in Units : KeyFind(data)
  \/ \E data \in Units : KeyGoto(data)
  \/ \E data \in Units : KeyRestart(data)
  \/ \E i \in 1..MaxPaste, text \in ClipTexts : PasteResolve(i, text)
  \/ \E i \in 1..MaxPaste : PasteReject(i)

SpecInput == InitInput /\ [][NextInput]_vars

\* the package loading of the app from its first visit on: Home is shown with a file
\* picked, no /r2 page and no terminal exist yet; the tab of a page is never started
InitLoad ==
  /\ pkg = FALSE /\ file = TRUE /\ mounted = FALSE /\ termInstance = "none"
  /\ r2Writer = 0 /\ instance = 0 /\ dir = 0
  /\ inst = [i \in InstIds |-> NoInst]
  /\ onDataRef = 0
  /\ attached = {}
  /\ closing = [k \in Renders |-> 0]
  /\ disposing = -1
  /\ disposed = FALSE
  /\ noFileErrors = 0
  /\ currentInput = <<>>
  /\ history = <<>>
  /\ historyIndex = -1
  /\ cancelController = FALSE
  /\ pastes = <<>>
  /\ out = NoOut
  /\ ExtInit

NextLoad ==
  \/ ToggleCacheVersion
  \/ \E v \in Versions : OnOpenRadare2(v)
  \/ CacheLookup
  \/ FetchRejects
  \/ \E ok \in BOOLEAN, contentLength \in 0..(MaxBody + 1) : FetchResolves(ok, contentLength)
  \/ \E n \in 1..MaxBody : ReadChunk(n)
  \/ ReadRejects
  \/ \E wellFormed \in BOOLEAN : ReadDone(wellFormed)
  \/ CachePutResolves
  \/ CachePutRejects
  \/ HideDownload
  \/ \E v \in Versions : DeleteCachedVersion(v)
  \/ HandleNavigateHome

SpecLoad == InitLoad /\ [][NextLoad]_vars

\* the side-channel views of one running session (the state in which create has completed)
InitScrape == InitInput

NextScrape ==
  \/ \E kind \in Kinds : ShowView(kind)
  \/ \E wellFormed \in BOOLEAN : R2Executes(wellFormed)
  \/ \E c \in 1..MaxScrapes : TimerFires(c)
  \/ \E c \in 1..MaxScrapes : ReadReturns(c)

SpecScrape == InitScrape /\ [][NextScrape]_vars

\* the hex view of one running session, over the dumps px can print
InitHex == InitInput

NextHex ==
  \/ \E dump \in Dumps : R2WritesDump(dump)
  \/ ShowHexdump

SpecHex == InitHex /\ [][NextHex]_vars

\* the tab bar of a page from its mount on
NextTabs ==
  \/ AddTab
  \/ \E id \in 0..MaxTabId : SelectTab(id)
  \/ \E id \in 0..MaxTabId : CloseTabButton(id)
  \/ \E num \in 1..9 : SwitchDigit(num)
  \/ \E step \in {-1, 1} : SwitchArrow(step)

SpecTabs == Init /\ [][NextTabs]_vars


\* the version gates over the release tags a page can be opened with
NextVersion ==
  \/ \E param \in ReleaseTags \cup {<<>>} : SetCurrentVersion(param)
  \/ LeavePage

SpecVersion == InitLoad /\ [][NextVersion]_vars

\* the proxy service from its start on
NextProxy ==
  \/ \E r \in ReqIds : Receive(r)
  \/ \E r \in ReqIds : AxiosRejects(r)
  \/ \E r \in ReqIds : AxiosResolves(r)
  \/ \E r \in ReqIds : EntryChunk(r)
  \/ \E r \in ReqIds : EntryEnds(r)
  \/ \E r \in ReqIds, src \in {"response.data", "ParseOne", "res"} : StreamError(r, src)

SpecProxy == InitLoad /\ [][NextProxy]_vars

\* the output of one running session (the state in which create has completed)
NextStreams ==
  \/ \E stream \in Streams, throws \in 0..3 : SinkWrite(stream, throws)
  \/ \E stream \in Streams : ChunkUnread(stream)

SpecStreams == InitInput /\ [][NextStreams]_vars

\* a /r2 page that has just mounted, for any version, caching option and cache content:
\* its first render has called fetchCachedVersions, its effect has started
\* initializeWasmer; no user event follows
InitQuiesce ==
  /\ pkg = FALSE /\ file = TRUE /\ mounted = TRUE /\ termInstance = "open"
  /\ r2Writer = 0 /\ instance = 0 /\ dir = 0
  /\ inst = [i \in InstIds |-> NoInst]
  /\ onDataRef = 0
  /\ attached = {}
  /\ closing = [k \in Renders |-> 0]
  /\ disposing = -1
  /\ disposed = FALSE
  /\ noFileErrors = 0
  /\ currentInput = <<>>
  /\ history = <<>>
  /\ historyIndex = -1
  /\ cancelController = FALSE
  /\ pastes = <<>>
  /\ out = NoOut
  /\ url \in [version : Versions, doCache : BOOLEAN]
  /\ cacheVersion = url.doCache
  /\ binaryCache \in SUBSET Versions
  /\ loader = [NoCall EXCEPT !.pc = "match"]
  /\ PageMount
  /\ resolveLog = NoLog
  /\ visits = [loads |-> 1, servedDefault |-> {}]
  /\ ScrapeIdle /\ HexIdle /\ TabsInitial /\ VersionInitial
  /\ ProxyIdle /\ SinksInitial /\ ListInitial /\ PageInitial

\* the steps of initializeWasmer after the mount
NextResolve ==
  \/ CacheLookup
  \/ FetchRejects
  \/ \E ok \in BOOLEAN, contentLength \in 0..(MaxBody + 1) : FetchResolves(ok, contentLength)
  \/ \E n \in 1..MaxBody : ReadChunk(n)
  \/ ReadRejects
  \/ \E wellFormed \in BOOLEAN : ReadDone(wellFormed)
  \/ CachePutResolves
  \/ CachePutRejects
  \/ HideDownload

NextQuiesce ==
  \/ NextResolve
  \/ ListOpened
  \/ ListKeys

\* promises of the Cache API, of fetch and of the body reader settle, and timers fire
SpecQuiesce ==
  /\ InitQuiesce /\ [][NextQuiesce]_vars
  /\ WF_vars(NextResolve) /\ WF_vars(ListOpened) /\ WF_vars(ListKeys)

\* the tabs of a page and their sessions, from the state in which the first tab's create
\* has completed
NextPage ==
  \/ TabsAdd
  \/ \E id \in TabIds : TabsClose(id)
  \/ \E id \in TabIds : pageUp /\ SelectTab(id)
  \/ \E n \in SessIds : TabLaunched(n)
  \/ TabRestart
  \/ ViewClick
  \/ SaveFile
  \/ \E o \in 1..MaxOps : OpTimer(o)
  \/ TabsUnmount
  \/ TabsNavigateHome

SpecPage == InitInput /\ [][NextPage]_vars

\* the whole onData handler for one unit
OnData(data) ==
  \/ data = CTRL_C /\ KeyCtrlC
  \/ data = CTRL_V /\ KeyCtrlV
  \/ data = CR /\ KeyEnter
  \/ data = UP /\ KeyArrowUp
  \/ data = DOWN /\ KeyArrowDown
  \/ data = DEL /\ KeyBackspace
  \/ KeyRestart(data)
  \/ KeyClear(data)
  \/ KeyFind(data)
  \/ KeyGoto(data)
  \/ KeyOther(data)

\* ------------------------------------------------------------------ claims

\* C1: at most one launched and not yet freed instance exists for the session, after any
\* sequence of create, restart (keyboard or handle, also overlapping) and dispose.
C1_AtMostOneInstance == Cardinality(Live) =< 1

\* C2: once dispose() has completed, the session has no launched and not yet freed
\* instance and no attached terminal input listener, in every later state.
C2_DisposedIsFinal == disposed => (Live = {} /\ attached = {})

\* C3: no keystroke handler or sidebar command writes on an input writer that has been
\* closed or whose instance has been freed.
C3_NoWriteOnDeadWriter == out.stdin # <<>> => ~out.dead

\* C10: given a package but no primary file, create and restart fail with the "No file
\* provided" terminal message: no Directory is allocated, no instance is launched, no
\* writer is exposed and the session state stays as it was before create.
C10_NoFileProvided ==
  ~file => /\ Allocated = {} /\ ClosingCount = 0
           /\ dir = 0 /\ r2Writer = 0 /\ instance = 0
           /\ onDataRef = 0 /\ attached = {}
           /\ pkg => noFileErrors >= 1
           /\ out.key = "restartSession" => noFileErrors >= 2

\* C10 witness: create and then a restart were attempted without a file
C10_Witness == ~file /\ pkg /\ noFileErrors = 2 /\ out.key = "restartSession"


\* C4 as claimed: a submit with pending buffer p forwards exactly p and one line
\* terminator, empties the pending buffer, and whenever p is non-empty appends p to the
\* history and sets the cursor to history.length.
C4_AsClaimed ==
  [][KeyEnter =>
       /\ Flatten(out'.stdin) = currentInput \o <<CR>>
       /\ out'.to = onDataRef /\ ~out'.dead
       /\ currentInput' = <<>>
       /\ currentInput # <<>> =>
            history' = Append(history, currentInput) /\ historyIndex' = Len(history')]_vars

\* C4 amended: a submit with pending buffer p forwards exactly p and one line terminator
\* to the wired instance and empties the pending buffer; p is appended as the last history
\* entry, and the cursor becomes history.length, exactly when p holds a character that is
\* not whitespace; otherwise history and cursor stay as they were.
C4_Submit ==
  [][KeyEnter =>
       /\ Flatten(out'.stdin) = currentInput \o <<CR>>
       /\ out'.to = onDataRef /\ ~out'.dead
       /\ currentInput' = <<>>
       /\ IF \E i \in DOMAIN currentInput : currentInput[i] \notin Whitespace
            THEN history' = Append(history, currentInput) /\ historyIndex' = Len(history')
            ELSE UNCHANGED <<history, historyIndex>>]_vars

\* C4 witness: "pd" then Enter on a fresh session forwarded "pd\r"; "pd" is history entry 0
C4_Witness ==
  /\ out.key = "submit" /\ Flatten(out.stdin) = <<"p", "d", CR>>
  /\ history = << <<"p", "d">> >> /\ historyIndex = 1 /\ currentInput = <<>>

\* C5: every unit that is not a reserved control sequence is appended verbatim to the
\* pending buffer and echoed, and does nothing else (upper-case letters included).
C5_AsClaimed ==
  [][\A data \in Units \ ControlUnits :
       OnData(data) =>
         /\ currentInput' = currentInput \o <<data>>
         /\ out'.term = <<data>> /\ out'.stdin = <<>>
         /\ UNCHANGED <<history, historyIndex, lifecycle, pastes>>]_vars

\* the pending buffers shown by previous, previous, previous, next, and by a fourth previous
NavSequence(h) ==
  LET h1 == OnArrowUp(h).h
      h2 == OnArrowUp(h1).h
      h3 == OnArrowUp(h2).h
  IN <<h1.currentInput, h2.currentInput, h3.currentInput, OnArrowDown(h3).h.currentInput,
       OnArrowUp(h3).h.currentInput>>

\* three lines were submitted and the third submit was the last change of the cursor
ThreeSubmitted == Len(history) = 3 /\ historyIndex = 3

\* C6 as claimed: after a, b, c were submitted, previous x3 then next shows b, a, a, b.
C6_AsClaimed ==
  ThreeSubmitted =>
    SubSeq(NavSequence(Closure), 1, 4) = <<history[2], history[1], history[1], history[2]>>

\* C6 amended: after a, b, c were submitted, previous x3 then next shows c, b, a, b, and a
\* previous pressed at the oldest entry shows a again: the cursor clamps and never wraps.
C6_HistoryNavigation ==
  ThreeSubmitted =>
    NavSequence(Closure) = <<history[3], history[2], history[1], history[2], history[1]>>

\* C6 witness: three lines submitted, neighbours differing, then previous x3 and next pressed
C6_Witness ==
  /\ Len(history) = 3 /\ history[1] # history[2] /\ history[2] # history[3]
  /\ out.key = "next" /\ historyIndex = 1 /\ currentInput = history[2]

\* C7: the cursor always lies in [0, history.length]; previous/next put the entry under the
\* cursor into the pending buffer when the cursor is inside the history; navigation clears
\* the pending buffer only when the cursor moves past the last entry of a non-empty history.
C7_AsClaimed ==
  /\ [](historyIndex \in 0..Len(history))
  /\ [][(KeyArrowUp \/ KeyArrowDown) =>
          /\ (historyIndex' # historyIndex /\ historyIndex' < Len(history))
               => currentInput' = At(history, historyIndex')
          /\ (currentInput # <<>> /\ currentInput' = <<>>)
               => (history # <<>> /\ historyIndex' = Len(history))]_vars

\* C8: every interrupt cancels the tracked token, writes the interrupt marker and forwards
\* exactly one bare line terminator, whatever input preceded it.
C8_AsClaimed ==
  [][KeyCtrlC =>
       /\ ~cancelController'
       /\ out'.term = <<"^C\r">>
       /\ Flatten(out'.stdin) = <<CR>>]_vars

\* C9: a clipboard text that was read successfully is appended to the line that was
\* pending when the paste was triggered, never to a later line or another wiring.
C9_AsClaimed == (out.key = "clipboard" /\ out.line # "") => out.line = "pending"

\* C11: dispose() is idempotent and never throws: in every session state, two dispose()
\* calls in a row raise no error to the caller, also when close() or free() fails, and the
\* state after the second call equals the state after the first; the tab's own dispose
\* (CloseTab, then DisposeFinish) ends in the state DisposeCall computes.
C11_DisposeIdempotent ==
  /\ [](LET first == DisposeCall(instance, Session)
            second == DisposeCall(instance, first.s)
        IN first.raised = {} /\ second.raised = {} /\ second.s = first.s)
  /\ [][DisposeFinish => Session' = DisposeCall(disposing, Session).s]_vars

\* C11 witness: a dispose() of a running session has completed, and a second call would
\* find the writer closed and the instance freed
C11_Witness ==
  /\ disposed /\ instance # 0 /\ inst[instance].st = "freed"
  /\ DisposeCall(instance, Session).caught = {"close", "free"}

\* the cache lookup of this page load's resolve has answered
LookedUp == loader.pc \notin {"idle", "match"}

\* C12: a resolve that finds the requested version in BinaryCache issues no network fetch,
\* reports no progress and no phase, never enters the downloading state, and ends with the
\* package decoded from the cached bytes.
C12_CacheHitNoFetch ==
  (LookedUp /\ resolveLog.hit) =>
    /\ resolveLog.fetches = 0
    /\ resolveLog.progress = <<>> /\ resolveLog.phases = <<>>
    /\ ~isDownloading
    /\ loader.pc = "done" /\ pkg

\* C12 witness: the second visit asks for the version the first visit stored
C12_Witness ==
  /\ visits.loads = 2 /\ resolveLog.hit /\ loader.pc = "done" /\ pkg
  /\ url.version \in binaryCache /\ resolveLog.fetches = 0

\* C13: after a successful resolve of a version with the caching option left at its
\* default, a later resolve of the same version is served from BinaryCache with no fetch.
C13_AsClaimed == (LookedUp /\ resolveLog.expectHit) => resolveLog.fetches = 0

\* C14: the progress values reported within one resolve never decrease, whatever the
\* chunking of the body and the advertised content length.
C14_ProgressMonotone ==
  /\ \A i \in 1..(Len(resolveLog.progress) - 1) :
       Leq(resolveLog.progress[i], resolveLog.progress[i + 1])
  /\ resolveLog.progress # <<>> =>
       downloadProgress = resolveLog.progress[Len(resolveLog.progress)]

\* C14 witness: a resolve ran to its end on a body longer than its content-length said,
\* delivered in more than one chunk
C14_Witness ==
  /\ loader.pc = "done" /\ loader.total > 0 /\ loader.loaded > loader.total
  /\ Len(resolveLog.progress) >= 8

\* C15: progress is 100 only while the phase is complete, and the phases reported are a
\* prefix of initializing, downloading, processing, complete.
C15_PhaseOrder ==
  /\ Is(downloadProgress, 100) => downloadPhase = "complete"
  /\ IsPrefix(resolveLog.phases, <<"initializing", "downloading", "processing", "complete">>)
  /\ resolveLog.phases # <<>> => downloadPhase = resolveLog.phases[Len(resolveLog.phases)]

\* C15 witness: a resolve that stored its download has reported all four phases
C15_Witness ==
  /\ loader.pc = "done" /\ url.doCache /\ ~resolveLog.hit
  /\ Is(downloadProgress, 100) /\ Len(resolveLog.phases) = 4

\* C16: when the resolve has failed (fetch rejected, error status, body stream failed, or
\* bytes not decodable) and its call has ended, the UI is not in the downloading state.
C16_AsClaimed ==
  (Ended /\ resolveLog.failure \in {"fetch", "status", "stream", "decode"}) => ~isDownloading

\* C17: when storing the buffer in BinaryCache fails, the resolve still succeeds: at its
\* end the package is set, the phase is complete, progress is 100 and the downloading
\* state has ended.
C17_AsClaimed ==
  (Ended /\ resolveLog.failure = "put") =>
    /\ pkg /\ downloadPhase = "complete" /\ Is(downloadProgress, 100) /\ ~isDownloading

\* C18: a scrape call leaves no residual output file: when a call starts, the file of its
\* view is absent from the Directory if every earlier call for that view has finished
\* (parsed, timed out or failed to parse), and a call never returns output that r2
\* produced for an earlier call.
C18_AsClaimed ==
  \A c \in DOMAIN calls :
    /\ ~calls[c].residual
    /\ calls[c].result \in {0, c}

\* the records the claim asks for: one per line that begins with 0x and holds an address,
\* 16 bytes and an ASCII column, with the address read in base 16 and those bytes
RECURSIVE ClaimedRecords(_)
ClaimedRecords(ls) ==
  IF ls = <<>> THEN <<>>
  ELSE (IF Head(ls).kind = "row" /\ ~Head(ls).lead /\ Len(Head(ls).bytes) = 16
           /\ Head(ls).ascii # <<>>
          THEN << [offsetNum |-> HexPrefixValue(Head(ls).digits, 0), bytes |-> Head(ls).bytes] >>
          ELSE <<>>)
       \o ClaimedRecords(Tail(ls))

\* C19: parseHexdump emits, in input order, exactly one record (address read in base 16,
\* the 16 byte pairs in order) for every line that begins with 0x and holds an address, 16
\* bytes and an ASCII column, and none for any other line.
C19_AsClaimed ==
  showHexView =>
    [i \in DOMAIN hexData |-> [offsetNum |-> hexData[i].offsetNum, bytes |-> hexData[i].bytes]]
      = ClaimedRecords(px)

\* the open tabs that are active
ActiveTabs == {i \in DOMAIN tabs : tabs[i] = activeTab}

\* C20 as claimed: in every state of the page exactly one open session is active.
C20_AsClaimed == Cardinality(ActiveTabs) = 1

\* C20 amended: whenever at least one session is open, exactly one open session is
\* active; with no session open, none is.
C20_OneActiveWhenOpen ==
  /\ tabs # <<>> => Cardinality(ActiveTabs) = 1
  /\ tabs = <<>> => ActiveTabs = {}
  /\ \A i, j \in DOMAIN tabs : tabs[i] = tabs[j] => i = j

\* C20 witness: tabs were opened, the first one was closed and the active tab is neither
\* the first nor the last of those left
C20_Witness ==
  /\ Len(tabs) = 3 /\ tabs[1] # 0 /\ activeTab = tabs[2] /\ ~mounted


\* C29: at most one terminal input listener is attached per session: every stream wiring
\* (create, restart, overlapping restarts) disposes the listener held by the ref before it
\* registers the new one, and the listener that receives input is the one the ref holds.
C29_OneListener ==
  /\ Cardinality(attached) =< 1
  /\ attached \subseteq {onDataRef}

\* C29 witness: two overlapping restarts have both completed their wiring and one listener
\* is attached
C29_Witness ==
  /\ inst[2].st = "running" /\ inst[3].st = "running"
  /\ attached = {onDataRef} /\ onDataRef \in {2, 3}


\* the session is Running: a launch has completed, no restart is between its request and
\* the completion of its launch, and the tab is mounted and not being disposed
Running ==
  /\ mounted /\ disposing = -1 /\ ~disposed
  /\ instance # 0
  /\ ClosingCount = 0
  /\ \A i \in InstIds : inst[i].st # "launching"

\* C26: whenever the session is Running, the Directory returned by getDir() is the one
\* mounted into the running instance and the writer returned by getWriter() is the input
\* writer of that same instance.
C26_AsClaimed ==
  Running => /\ dir = instance
             /\ r2Writer = instance
             /\ inst[instance].st = "running"


\* C25: a restart with package, terminal and file present always goes on, once the await of
\* close() is over, to allocate a new Directory and start a launch, also when close()
\* rejected or free() threw; and when a launch resolves in a mounted tab, the instance, the
\* writer and the one attached listener are those of the new, running instance.
C25_RestartProceeds ==
  [][/\ \A k \in Renders :
          closing'[k] < closing[k] =>
            /\ inst'[NextId].st = "launching" /\ inst'[NextId].cap = k
            /\ inst[NextId].st = "none"
            /\ mounted => dir' = NextId
     /\ \A id \in InstIds :
          (mounted /\ inst[id].st = "launching" /\ inst'[id].st = "running") =>
            /\ instance' = id /\ r2Writer' = id
            /\ onDataRef' = id /\ attached' = {id}]_vars

\* C25 witness: two restarts were requested from the same render; the second found the
\* writer closed and the instance freed, and both launches were started
C25_Witness ==
  /\ inst[1].st = "freed" /\ inst[1].closed
  /\ inst[2].cap = 1 /\ inst[3].cap = 1
  /\ inst[2].st # "none" /\ inst[3].st = "running" /\ instance = 3


\* C27: whenever at least one tab is open, activeTab is the id of an open tab, after any
\* sequence of open-tab, close-tab (active or inactive) and Alt+digit / Alt+arrow events;
\* in particular closing the active tab activates a tab that is still open.
C27_ActiveIsOpen ==
  Len(tabs) > 0 => \E i \in DOMAIN tabs : activeTab = tabs[i]

\* C27 witness: with three tabs opened and the middle one closed, the active tab is the
\* first of the two left and is not the tab the page started with
C27_Witness ==
  /\ Len(tabs) = 2 /\ tabs[1] # 0 /\ tabs[2] > tabs[1] + 1 /\ activeTab = tabs[1]


\* C22: for every release version x.y.z the Graph view and the structured Strings/Hex
\* views are offered exactly when the version is 6.0.9 or higher, and Save File exactly
\* when it is 6.0.3 or higher, in numeric, component-wise version order.
C22_AsClaimed ==
  currentVersion # <<>> =>
    /\ "graph" \in offered <=> NotOlder(SplitNumbers(currentVersion), <<6, 0, 9>>)
    /\ "structured" \in offered <=> NotOlder(SplitNumbers(currentVersion), <<6, 0, 9>>)
    /\ "save" \in offered <=> NotOlder(SplitNumbers(currentVersion), <<6, 0, 3>>)


\* C21: for every GET /wasm/{version} request the proxy signals failure exactly once: a
\* failed upstream fetch yields status 500 with body "Error fetching ZIP file"; a failed
\* extraction (archive stream error, or no entry matching radare2.wasm) before the headers
\* were flushed yields status 500 with body "Error extracting WASM file"; after the headers
\* were flushed the status is left as sent and the connection is aborted; no failed
\* request is left without a response or an abort.
C21_AsClaimed ==
  \A r \in ReqIds :
    /\ reqs[r].failure = "fetch" =>
         reqs[r].statusCode = 500 /\ reqs[r].body = "Error fetching ZIP file"
    /\ (reqs[r].failure = "extract" /\ ~reqs[r].flushed) =>
         reqs[r].statusCode = 500 /\ reqs[r].body = "Error extracting WASM file"
    /\ (reqs[r].failure = "extract" /\ reqs[r].flushed) =>
         reqs[r].statusCode = 200 /\ reqs[r].pc \in {"aborted", "reset"}
    /\ reqs[r].failure # "none" => reqs[r].pc \in {"ended", "aborted", "reset"}


\* C24: a failure of the terminal write while an output or error chunk is rendered never
\* ends the stream or the session: the failure is handled for that chunk, later chunks of
\* the same stream are still rendered, and the instance and its input path stay as they
\* were.
C24_AsClaimed ==
  /\ \A stream \in Streams :
       /\ sinks[stream].st = "open"
       /\ sinks[stream].lost = 0
       /\ ~sinks[stream].unhandled
  /\ inst[instance].st = "running" /\ r2Writer = instance /\ attached = {instance}


\* C30: the page reaches quiescence: once the package has been resolved, and with no
\* further user events, the enumeration of cached versions and the state updates it
\* causes eventually stop for good.
C30_AsClaimed == <>[](pkg => listCall = "idle")


\* C23: no cross-session sharing of a MountedDirectory: every view or Save File operation
\* reads (and deletes) files only in the Directory of the session to whose input it wrote
\* its commands, under any interleaving of the 1000 ms delay with tab switches, closes,
\* opens (also of a closed tab's id) and restarts.
C23_AsClaimed ==
  \A o \in DOMAIN ops : ops[o].st = "read" => ops[o].read = ops[o].wrote

\* C28: once the page is torn down (unmount or navigate home), dispose() has been called on
\* every session that was open, also on tabs opened after the first render, and no
\* instance is left launched and not freed.
C28_AsClaimed ==
  ~pageUp => \A n \in SessIds :
               sess[n].st # "none" => sess[n].disposed /\ sess[n].st # "running"

====
